---- MODULE Spec2Model ----
(***************************************************************************)
(* A model of the TraceAssist backend (src/backend/main.py and             *)
(* src/backend/database/crud.py, models.py).                               *)
(*                                                                         *)
(*   SpecTransform  the manifest transform modify_kubernetes_manifest as   *)
(*                  an operator over YAML documents, applied to manifests  *)
(*                  of a bounded set and then to its own output.           *)
(*   Spec           the endpoints that change state (create, instrument,   *)
(*                  teardown) for one deployment name, the requests served *)
(*                  one at a time, every external call failing or not.     *)
(*   SpecCreate     create requests alone, over a longer list of names.    *)
(***************************************************************************)
EXTENDS Integers, Sequences, FiniteSets, TLC

\* Python's None, and the value of d.get(key) for a key that is not there.
None == "<None>"

(***************************************************************************)
(* Bounds of the model.                                                    *)
(***************************************************************************)
\* Longest manifest text, in documents.
MaxDocs == 2
\* Most calls of the transform in one behaviour of SpecTransform.
MaxCalls == 3
\* Most rows of the table in a behaviour of SpecCreate.
MaxRecords == 2
\* Most files of a directory tree given to the language detector.
MaxFiles == 3
\* Largest row id given out in a behaviour of SpecTwo.
MaxId == 3

(***************************************************************************)
(* YAML documents.                                                         *)
(*                                                                         *)
(* A document is a record of the keys the transform reads or writes.       *)
(*   type      "map" for a mapping, "scalar" for any other node            *)
(*   kind      doc["kind"]                                                 *)
(*   metadata  "absent" (no such key), "null" (key with a null value) or   *)
(*             "map"                                                       *)
(*   name      metadata.name                                               *)
(*   labels    metadata.labels: "absent", "null" or "map"                  *)
(*   app       metadata.labels.app                                         *)
(*   matchApp  spec.selector.matchLabels.app                               *)
(*   tplApp    spec.template.metadata.labels.app                           *)
(*   containers spec.template.spec.containers (absent is the empty list)   *)
(*   inject    template annotation instrumentation.opentelemetry.io/inject *)
(*   injectLang the languages L whose annotation .../inject-L is "true"    *)
(*   serviceAccountName  spec.template.spec.serviceAccountName             *)
(*   svcApp    spec.selector.app                                           *)
(* The mappings on the way to these keys (spec, selector, template, ...)   *)
(* are created empty by setdefault when missing; their presence carries no *)
(* value and is not modelled.                                              *)
(***************************************************************************)
Languages == {"unknown", "python", "java", "nodejs"}

Container(n, img, pol) == [name |-> n, image |-> img, imagePullPolicy |-> pol]

\* A non-mapping document (a scalar, a list, an empty document).
ScalarDoc ==
    [type |-> "scalar", kind |-> None, metadata |-> "absent", name |-> None,
     labels |-> "absent", app |-> None, matchApp |-> None, tplApp |-> None,
     containers |-> <<>>, inject |-> None, injectLang |-> {},
     serviceAccountName |-> None, svcApp |-> None]

\* A mapping of the given kind with a metadata mapping and nothing else.
MapDoc(k) == [ScalarDoc EXCEPT !.type = "map", !.kind = k, !.metadata = "map"]

(***************************************************************************)
(* YAML text.  A text is a sequence of document texts; a document text is  *)
(* a node and the way it is spelled: "block" is the block style that       *)
(* yaml.dump_all emits, "flow" stands for every other spelling of the same *)
(* node (flow style, comments, quoting).                                   *)
(***************************************************************************)
\* yaml.safe_load_all: the nodes of a text, their spelling forgotten.
safe_load_all(yaml_content) ==
    [i \in 1..Len(yaml_content) |-> yaml_content[i].node]

\* yaml.dump_all(docs, sort_keys=False): every node in block style.
dump_all(docs) ==
    [i \in 1..Len(docs) |-> [fmt |-> "block", node |-> docs[i]]]

(***************************************************************************)
(* modify_kubernetes_manifest, one document of the loop.                   *)
(* The result is the patched document, the two flags this document raises, *)
(* and whether the body raised (which the function turns into a 500).      *)
(***************************************************************************)
DocResult(d, a, i, r) == [doc |-> d, any |-> a, instr |-> i, raised |-> r]

\* ContainerToModify without the search by name: always containers[0].
ContainerToModify_First(containers, original_app_label) == 1

\* next((c for c in containers if c.get('name') == original_app_label), containers[0])
\* as an index into containers; containers is not empty.
ContainerToModify(containers, original_app_label) ==
    LET hits == {i \in 1..Len(containers) : containers[i].name = original_app_label}
    IN  IF hits = {} THEN 1 ELSE CHOOSE i \in hits : \A j \in hits : i <= j

\* ModifyDeployment with a first flag that the three instrumentation edits
\* do not set: lines 182, 186 and 190 missing.
ModifyDeployment_StructuralFlag(doc, original_app_label, app_id, image_name, language) ==
    LET d1 == [doc EXCEPT !.name = app_id \o "-deployment"]
        c1 == doc.name # app_id \o "-deployment"
        \* labels = doc['metadata'].setdefault('labels', {})
        d2 == [d1 EXCEPT !.labels = "map", !.app = app_id]
        c2 == doc.app # app_id
        d3 == [d2 EXCEPT !.matchApp = app_id]
        c3 == doc.matchApp # app_id
        d4 == [d3 EXCEPT !.tplApp = app_id]
        c4 == doc.tplApp # app_id
        containers == doc.containers
        k  == ContainerToModify(containers, original_app_label)
        c5 == containers # <<>> /\ containers[k].image # image_name
        c6 == containers # <<>> /\ containers[k].imagePullPolicy # "Never"
        d6 == IF containers = <<>> THEN d4
              ELSE [d4 EXCEPT !.containers[k].image = image_name,
                              !.containers[k].imagePullPolicy = "Never"]
        i1 == doc.inject # "true"
        d7 == [d6 EXCEPT !.inject = "true"]
        i2 == language # "unknown" /\ language \notin doc.injectLang
        d8 == IF language # "unknown"
              THEN [d7 EXCEPT !.injectLang = @ \cup {language}] ELSE d7
        i3 == doc.serviceAccountName # "traceassist-sa"
        d9 == [d8 EXCEPT !.serviceAccountName = "traceassist-sa"]
    IN  DocResult(d9, c1 \/ c2 \/ c3 \/ c4 \/ c5 \/ c6,
                  i1 \/ i2 \/ i3, FALSE)

\* ModifyDeployment with a language annotation that counts as a structural
\* edit: line 187 missing.
ModifyDeployment_LanguageNotFlagged(doc, original_app_label, app_id, image_name, language) ==
    LET d1 == [doc EXCEPT !.name = app_id \o "-deployment"]
        c1 == doc.name # app_id \o "-deployment"
        \* labels = doc['metadata'].setdefault('labels', {})
        d2 == [d1 EXCEPT !.labels = "map", !.app = app_id]
        c2 == doc.app # app_id
        d3 == [d2 EXCEPT !.matchApp = app_id]
        c3 == doc.matchApp # app_id
        d4 == [d3 EXCEPT !.tplApp = app_id]
        c4 == doc.tplApp # app_id
        containers == doc.containers
        k  == ContainerToModify(containers, original_app_label)
        c5 == containers # <<>> /\ containers[k].image # image_name
        c6 == containers # <<>> /\ containers[k].imagePullPolicy # "Never"
        d6 == IF containers = <<>> THEN d4
              ELSE [d4 EXCEPT !.containers[k].image = image_name,
                              !.containers[k].imagePullPolicy = "Never"]
        i1 == doc.inject # "true"
        d7 == [d6 EXCEPT !.inject = "true"]
        i2 == language # "unknown" /\ language \notin doc.injectLang
        d8 == IF language # "unknown"
              THEN [d7 EXCEPT !.injectLang = @ \cup {language}] ELSE d7
        i3 == doc.serviceAccountName # "traceassist-sa"
        d9 == [d8 EXCEPT !.serviceAccountName = "traceassist-sa"]
    IN  DocResult(d9, c1 \/ c2 \/ c3 \/ c4 \/ c5 \/ c6 \/ i1 \/ i2 \/ i3,
                  i1 \/ i3, FALSE)

\* Lines 153-191: the Deployment branch.  doc has a metadata mapping.
ModifyDeployment(doc, original_app_label, app_id, image_name, language) ==
    LET d1 == [doc EXCEPT !.name = app_id \o "-deployment"]
        c1 == doc.name # app_id \o "-deployment"
        \* labels = doc['metadata'].setdefault('labels', {})
        d2 == [d1 EXCEPT !.labels = "map", !.app = app_id]
        c2 == doc.app # app_id
        d3 == [d2 EXCEPT !.matchApp = app_id]
        c3 == doc.matchApp # app_id
        d4 == [d3 EXCEPT !.tplApp = app_id]
        c4 == doc.tplApp # app_id
        containers == doc.containers
        k  == ContainerToModify(containers, original_app_label)
        c5 == containers # <<>> /\ containers[k].image # image_name
        c6 == containers # <<>> /\ containers[k].imagePullPolicy # "Never"
        d6 == IF containers = <<>> THEN d4
              ELSE [d4 EXCEPT !.containers[k].image = image_name,
                              !.containers[k].imagePullPolicy = "Never"]
        i1 == doc.inject # "true"
        d7 == [d6 EXCEPT !.inject = "true"]
        i2 == language # "unknown" /\ language \notin doc.injectLang
        d8 == IF language # "unknown"
              THEN [d7 EXCEPT !.injectLang = @ \cup {language}] ELSE d7
        i3 == doc.serviceAccountName # "traceassist-sa"
        d9 == [d8 EXCEPT !.serviceAccountName = "traceassist-sa"]
    IN  DocResult(d9, c1 \/ c2 \/ c3 \/ c4 \/ c5 \/ c6 \/ i1 \/ i2 \/ i3,
                  i1 \/ i2 \/ i3, FALSE)

\* Lines 192-196: the Service branch.
ModifyService(doc, app_id) ==
    DocResult([doc EXCEPT !.svcApp = app_id], doc.svcApp # app_id, FALSE, FALSE)

\* Lines 147-197: the body of the loop for one document.
ModifyDoc(doc, app_id, image_name, language) ==
    IF doc.type # "map" THEN DocResult(doc, FALSE, FALSE, FALSE)
    \* line 152: doc.get('metadata', {}).get('labels', {}).get('app') raises
    \* AttributeError on a null metadata or a null labels
    ELSE IF doc.metadata = "null" \/ (doc.metadata = "map" /\ doc.labels = "null")
    THEN DocResult(doc, FALSE, FALSE, TRUE)
    ELSE LET original_app_label ==
                 IF doc.metadata = "map" /\ doc.labels = "map" THEN doc.app ELSE None
         IN  IF doc.kind = "Deployment"
             THEN \* line 154: doc['metadata'] raises KeyError without metadata
                  IF doc.metadata = "absent" THEN DocResult(doc, FALSE, FALSE, TRUE)
                  ELSE ModifyDeployment(doc, original_app_label, app_id,
                                        image_name, language)
             ELSE IF doc.kind = "Service" THEN ModifyService(doc, app_id)
             ELSE DocResult(doc, FALSE, FALSE, FALSE)

(***************************************************************************)
(* modify_kubernetes_manifest: the whole function.                         *)
(* Returns the new text and the flags, or raised = TRUE (HTTPException     *)
(* 500, line 200) with the input text.                                     *)
(***************************************************************************)
modify_kubernetes_manifest(yaml_content, app_id, image_name, language) ==
    LET docs == safe_load_all(yaml_content)
        res  == [i \in 1..Len(docs) |-> ModifyDoc(docs[i], app_id, image_name, language)]
        modified_docs == [i \in 1..Len(docs) |-> res[i].doc]
    IN  IF \E i \in 1..Len(docs) : res[i].raised
        THEN [yaml |-> yaml_content, any_changes_made |-> FALSE,
              instrumentation_changes_made |-> FALSE, raised |-> TRUE]
        ELSE [yaml |-> dump_all(modified_docs),
              any_changes_made |-> \E i \in 1..Len(docs) : res[i].any,
              instrumentation_changes_made |-> \E i \in 1..Len(docs) : res[i].instr,
              raised |-> FALSE]

\* image_name = f"user-app-{deployment_name.lower()}:latest" (line 452)
LowerChar(c) ==
    CASE c = "A" -> "a" [] c = "M" -> "m" [] c = "P" -> "p" [] OTHER -> c

RECURSIVE Lower(_)
Lower(s) ==
    IF Len(s) = 0 THEN "" ELSE LowerChar(SubSeq(s, 1, 1)) \o Lower(SubSeq(s, 2, Len(s)))

ImageName(deployment_name) == "user-app-" \o Lower(deployment_name) \o ":latest"

(***************************************************************************)
(* The manifests the transform is tried on.                                *)
(***************************************************************************)
AppIds == {"foo", "web"}

ContainerLists(image_name) ==
    { <<>>,
      <<Container("app", "old:tag", None)>>,
      <<Container("sidecar", "old:tag", None), Container("web", "old:tag", None)>>,
      <<Container("sidecar", "old:tag", "Never"), Container("web", image_name, "Never")>>,
      <<Container("sidecar", image_name, "Never"), Container("foo", "old:tag", "Always")>>,
      \* a container without a name (c.get('name') is None)
      <<Container("sidecar", "old:tag", None), Container(None, "old:tag", None)>>,
      <<Container("web", image_name, "Never")>> }

\* Deployment documents with a metadata mapping.
DeploymentDocs(app_id, image_name) ==
    { [MapDoc("Deployment") EXCEPT
          !.name = n, !.labels = l[1], !.app = l[2], !.matchApp = m, !.tplApp = m,
          !.containers = cs, !.inject = inj, !.injectLang = il,
          !.serviceAccountName = sa] :
        n   \in {None, app_id \o "-deployment"},
        l   \in {<<"absent", None>>, <<"map", None>>, <<"map", "web">>, <<"map", "foo">>},
        m   \in {None, app_id},
        cs  \in ContainerLists(image_name),
        inj \in {None, "false", "true"},
        il  \in {{}, {"python"}},
        sa  \in {None, "traceassist-sa"} }

\* Documents the transform leaves alone, or fails on.
OtherDocs(app_id) ==
    { ScalarDoc,
      [MapDoc("Service") EXCEPT !.svcApp = "web"],
      [MapDoc("Service") EXCEPT !.svcApp = app_id, !.metadata = "absent"],
      [MapDoc("ConfigMap") EXCEPT !.labels = "map", !.app = "web"],
      [MapDoc("ConfigMap") EXCEPT !.metadata = "absent"],
      [MapDoc("ConfigMap") EXCEPT !.metadata = "null"],
      [MapDoc("ConfigMap") EXCEPT !.labels = "null"],
      [MapDoc(None) EXCEPT !.metadata = "absent"],
      [MapDoc("Deployment") EXCEPT !.metadata = "absent"],
      [MapDoc("Deployment") EXCEPT !.labels = "null"],
      [MapDoc("Deployment") EXCEPT !.labels = "null",
          !.containers = <<Container("app", "old:tag", None)>>] }

\* The documents multi-document texts are built from.
CoreDocs(app_id, image_name) ==
    { ScalarDoc,
      [MapDoc("Service") EXCEPT !.svcApp = "web"],
      [MapDoc("ConfigMap") EXCEPT !.labels = "map", !.app = "web"],
      [MapDoc("Deployment") EXCEPT !.name = "web", !.labels = "map", !.app = "web",
          !.matchApp = "web", !.tplApp = "web",
          !.containers = <<Container("sidecar", "old:tag", None),
                           Container("web", "old:tag", None)>>],
      [MapDoc("Deployment") EXCEPT !.name = app_id \o "-deployment", !.labels = "map",
          !.app = app_id, !.matchApp = app_id, !.tplApp = app_id,
          !.containers = <<Container("app", image_name, "Never")>>,
          !.inject = "true", !.serviceAccountName = "traceassist-sa"] }

AllDocs(app_id, image_name) ==
    DeploymentDocs(app_id, image_name) \cup OtherDocs(app_id) \cup CoreDocs(app_id, image_name)

RECURSIVE SeqsOfLen(_, _)
SeqsOfLen(S, n) ==
    IF n = 0 THEN {<<>>}
    ELSE {Append(s, x) : s \in SeqsOfLen(S, n - 1), x \in S}

\* Texts: the empty text, every single document in both spellings, and the
\* block-style texts of 2..MaxDocs core documents.
Texts(app_id, image_name) ==
    {<<>>}
    \cup { <<[fmt |-> f, node |-> d]>> :
             f \in {"block", "flow"}, d \in AllDocs(app_id, image_name) }
    \cup UNION { { dump_all(s) : s \in SeqsOfLen(CoreDocs(app_id, image_name), n) } :
                 n \in 2..MaxDocs }

(***************************************************************************)
(* Part 2.  The deployment records, the credential helpers, the working    *)
(* directories and the repositories of the pipeline.                       *)
(***************************************************************************)
BASE_DIR == "user-apps"
K8S_OUTPUT_DIR == "k8s-generated"

\* The name the requests of Spec carry, and the longer list SpecCreate
\* tries, whose last name has 64 characters.
PipelineNames == {"app"}
LongName == "a234567890123456789012345678901234567890123456789012345678901234"
CreateNames == {"my-app-1", "My_App", "-abc", "abc-", "a", LongName}
\* Two names of SpecTwo, one a prefix of the other up to the hyphen.
TwoNames == {"app", "app-web"}
Names == PipelineNames \cup CreateNames \cup TwoNames

\* Plaintext access tokens of create requests; None is a request without one.
Tokens == {"ghp/tok", "ghp_tok"}
RepoUrls == {"https://github.com/o/r"}

\* fernet.encrypt / fernet.decrypt (lines 377, 439): the ciphertext does not
\* show the plaintext (here: it holds it backwards), and decrypt undoes
\* encrypt.
RECURSIVE Reverse(_)
Reverse(s) ==
    IF Len(s) = 0 THEN "" ELSE Reverse(SubSeq(s, 2, Len(s))) \o SubSeq(s, 1, 1)

encrypt(token) == "fernet(" \o Reverse(token) \o ")"
decrypt(ciphertext) == Reverse(SubSeq(ciphertext, 8, Len(ciphertext) - 1))

\* urllib.parse.quote(token, safe=''): "/" is percent-encoded.
RECURSIVE quote(_)
quote(s) ==
    IF Len(s) = 0 THEN ""
    ELSE (IF SubSeq(s, 1, 1) = "/" THEN "%2F" ELSE SubSeq(s, 1, 1))
         \o quote(SubSeq(s, 2, Len(s)))

\* urlparse(repo_url), for the URLs of the model.
urlparse(repo_url) ==
    [scheme |-> "https", hostname |-> "github.com",
     path |-> SubSeq(repo_url, 19, Len(repo_url))]

\* Lines 440-444 (also 369-372): the clone URL, with the token as userinfo.
EffectiveCloneUrl(repo_url, pat_token) ==
    IF pat_token = None THEN repo_url
    ELSE LET parsed_url == urlparse(repo_url)
             netloc_with_token == quote(pat_token) \o "@" \o parsed_url.hostname
         IN  parsed_url.scheme \o "://" \o netloc_with_token \o parsed_url.path

(***************************************************************************)
(* Deployment records (models.Deployment) and database/crud.py.  The table *)
(* is a set of rows; id is the primary key.                                *)
(***************************************************************************)
Row(id, deployment_name, repo_url, encrypted_pat_token, language, push_enabled, status) ==
    [id |-> id, deployment_name |-> deployment_name, repo_url |-> repo_url,
     encrypted_pat_token |-> encrypted_pat_token, language |-> language,
     push_enabled |-> push_enabled, status |-> status, grafana_panel_links |-> None]

\* What a query returns when no row matches (Python's None).
NoRow == Row(0, None, None, None, None, FALSE, None)

\* crud.get_deployment_by_name: .filter(name == ...).first()
get_deployment_by_name(table, deployment_name) ==
    LET hits == {r \in table : r.deployment_name = deployment_name}
    IN  IF hits = {} THEN NoRow
        ELSE CHOOSE r \in hits : \A q \in hits : r.id <= q.id

\* The primary key of a new row.
NextId(table) ==
    IF table = {} THEN 1
    ELSE 1 + (CHOOSE m \in {r.id : r \in table} : \A r \in table : r.id <= m)

\* models.Deployment.deployment_name is unique=True: the insert of a second
\* row of the same name raises IntegrityError.
ViolatesUnique(table, deployment_name) ==
    \E r \in table : r.deployment_name = deployment_name

\* crud.create_deployment, the constraint holding.
create_deployment(table, deployment_name, repo_url, encrypted_pat_token, language, push_enabled, status) ==
    table \cup {Row(NextId(table), deployment_name, repo_url, encrypted_pat_token,
                    language, push_enabled, status)}

\* update_deployment_status that writes the row anew and forgets its language.
update_deployment_status_ForgetsLanguage(table, deployment_name, status) ==
    LET db_deployment == get_deployment_by_name(table, deployment_name)
    IN  IF db_deployment = NoRow THEN table
        ELSE (table \ {db_deployment})
             \cup {[db_deployment EXCEPT !.status = status, !.language = "unknown"]}

\* update_deployment_status that inserts a row when there is none.
update_deployment_status_Upserts(table, deployment_name, status) ==
    LET db_deployment == get_deployment_by_name(table, deployment_name)
    IN  IF db_deployment = NoRow
        THEN table \cup {Row(NextId(table), deployment_name, None, None, None, FALSE, status)}
        ELSE (table \ {db_deployment}) \cup {[db_deployment EXCEPT !.status = status]}

\* crud.update_deployment_status: a no-op when there is no such row.
update_deployment_status(table, deployment_name, status) ==
    LET db_deployment == get_deployment_by_name(table, deployment_name)
    IN  IF db_deployment = NoRow THEN table
        ELSE (table \ {db_deployment}) \cup {[db_deployment EXCEPT !.status = status]}

\* crud.update_deployment_grafana_links
update_deployment_grafana_links(table, deployment_name, links) ==
    LET db_deployment == get_deployment_by_name(table, deployment_name)
    IN  IF db_deployment = NoRow THEN table
        ELSE (table \ {db_deployment})
             \cup {[db_deployment EXCEPT !.grafana_panel_links = links]}

\* crud.delete_deployment_by_name
delete_deployment_by_name(table, deployment_name) ==
    LET db_deployment == get_deployment_by_name(table, deployment_name)
    IN  IF db_deployment = NoRow THEN table ELSE table \ {db_deployment}

(***************************************************************************)
(* detect_language, after the walk: the decision of lines 129-133 on       *)
(* whether a package.json was seen and the counts of .py and .java files.  *)
(***************************************************************************)
detect_language(has_package_json, py_count, java_count) ==
    IF has_package_json THEN "nodejs"
    ELSE IF py_count > java_count THEN "python"
    ELSE IF java_count > 0 THEN "java"
    ELSE IF py_count > 0 THEN "python"
    ELSE "unknown"

\* str.endswith and the prefix test of a glob pattern.
EndsWith(s, suffix) ==
    Len(s) >= Len(suffix) /\ SubSeq(s, Len(s) - Len(suffix) + 1, Len(s)) = suffix

StartsWith(s, prefix) ==
    Len(s) >= Len(prefix) /\ SubSeq(s, 1, Len(prefix)) = prefix

(***************************************************************************)
(* detect_language, the walk of lines 120-128.  A directory tree is the    *)
(* set of its files, each [path, name]: path is the sequence of directory  *)
(* names from the root to the directory of the file.                       *)
(***************************************************************************)
Entry(path, name) == [path |-> path, name |-> name]

\* A path that is not a directory (line 121).
NoDirectory == {Entry(<<>>, None)}

\* Line 122.
excluded_dirs ==
    {".git", "node_modules", "__pycache__", "venv", "env", ".venv", "target",
     "build", "dist"}

\* Line 124 without the filter: os.walk goes down every directory.
KeptDirs_All(dirs) == dirs

\* Line 124: dirs[:] = [d for d in dirs if d not in excluded_dirs]
KeptDirs(dirs) == dirs \ excluded_dirs

\* What the walk has seen.
Seen(pkg, py, java) == [has_package_json |-> pkg, py_count |-> py, java_count |-> java]

\* os.walk from directory top (lines 123-128): the files of top are
\* counted, then the walk goes down the directories of top that are kept.
RECURSIVE Walk(_, _)
RECURSIVE WalkDirs(_, _, _, _)
Walk(tree, top) ==
    LET files == {x.name : x \in {e \in tree : e.path = top}}
        below == {e \in tree : /\ Len(e.path) > Len(top)
                                /\ SubSeq(e.path, 1, Len(top)) = top}
        dirs  == {e.path[Len(top) + 1] : e \in below}
        here  == Seen("package.json" \in files,
                      Cardinality({f \in files : EndsWith(f, ".py")}),
                      Cardinality({f \in files : EndsWith(f, ".java")}))
    IN  WalkDirs(tree, top, KeptDirs(dirs), here)

WalkDirs(tree, top, dirs, seen) ==
    IF dirs = {} THEN seen
    ELSE LET d == CHOOSE d \in dirs : TRUE
             w == Walk(tree, Append(top, d))
         IN  WalkDirs(tree, top, dirs \ {d},
                      Seen(seen.has_package_json \/ w.has_package_json,
                           seen.py_count + w.py_count,
                           seen.java_count + w.java_count))

\* detect_language(app_path), lines 119-133.
DetectLanguageAt(app_path) ==
    IF app_path = NoDirectory THEN "unknown"
    ELSE LET w == Walk(app_path, <<>>)
         IN  detect_language(w.has_package_json, w.py_count, w.java_count)

\* The trees the detector is tried on: up to MaxFiles files.
WalkPaths == {<<>>, <<"src">>, <<"venv">>, <<"src", "dist">>, <<"venv", "lib">>}
WalkNames == {"package.json", "a.py", "b.py", "A.java", "README.md"}
WalkEntries == {Entry(path, name) : path \in WalkPaths, name \in WalkNames}

RECURSIVE SubsetsUpTo(_, _)
SubsetsUpTo(S, n) ==
    IF n = 0 THEN {{}}
    ELSE LET P == SubsetsUpTo(S, n - 1) IN P \cup {T \cup {x} : T \in P, x \in S}

WalkTrees == SubsetsUpTo(WalkEntries, MaxFiles) \cup {NoDirectory}

(***************************************************************************)
(* Repositories and working trees.  A tree has a Dockerfile or not, source *)
(* files (summarised as detect_language reads them) and manifest files: a  *)
(* sequence, in directory-listing order, of [dir, name, text], dir being   *)
(* the directory relative to the root ("" is the root itself).             *)
(***************************************************************************)
File(dir, name, text) == [dir |-> dir, name |-> name, text |-> text]

Tree(dockerfile, pkg, py, java, files) ==
    [exists |-> TRUE, origin |-> None, dockerfile |-> dockerfile,
     has_package_json |-> pkg, py_count |-> py, java_count |-> java, files |-> files,
     \* the deployments whose runs have pushed a commit (line 471) to this tree
     commits |-> {}]

\* A directory that does not exist.
NoTree == [Tree(FALSE, FALSE, 0, 0, <<>>) EXCEPT !.exists = FALSE]

\* A Deployment as a user writes it: two containers, the second named after
\* the app label, no instrumentation.
PlainDeployment ==
    [MapDoc("Deployment") EXCEPT !.name = "web", !.labels = "map", !.app = "web",
        !.matchApp = "web", !.tplApp = "web",
        !.containers = <<Container("sidecar", "envoy:1", None),
                         Container("web", "old:tag", None)>>]

\* A Deployment that already carries the annotation and the service account.
InstrumentedDeployment ==
    [PlainDeployment EXCEPT !.inject = "true",
        !.serviceAccountName = "traceassist-sa"]

PlainService == [MapDoc("Service") EXCEPT !.svcApp = "web"]

YamlOf(doc) == <<[fmt |-> "flow", node |-> doc]>>

\* The repositories a behaviour of Spec starts from.
Repositories ==
    { \* python sources, a Deployment in k8s/*.yaml and a Service in k8s/*.yml
      Tree(TRUE, FALSE, 3, 0,
           << File("k8s", "deploy.yaml", YamlOf(PlainDeployment)),
              File("k8s", "svc.yml", YamlOf(PlainService)) >>),
      \* no sources, one instrumented Deployment in a .yml file of the root
      Tree(TRUE, FALSE, 0, 0,
           << File("", "deploy.yml", YamlOf(InstrumentedDeployment)) >>),
      \* no Dockerfile
      Tree(FALSE, FALSE, 0, 2,
           << File("deploy", "deploy.yaml", YamlOf(PlainDeployment)) >>),
      \* no manifest in a searched directory
      Tree(TRUE, TRUE, 0, 0,
           << File("charts", "deploy.yaml", YamlOf(PlainDeployment)) >>),
      \* a Deployment without metadata, on which the transform raises
      Tree(TRUE, FALSE, 1, 0,
           << File("manifests", "a.yaml", YamlOf(PlainService)),
              File("manifests", "b.yaml",
                   YamlOf([MapDoc("Deployment") EXCEPT !.metadata = "absent"])) >>) }

\* Line 455: the directories searched, in order.
search_dirs == <<"", "k8s", "deploy", "manifests">>

\* [p for d in search_dirs if d.is_dir() for p in d.glob(pattern)] as indices
\* into tree.files; suffix is ".yaml" or ".yml".
RECURSIVE GlobDirs(_, _, _)
GlobDirs(tree, suffix, d) ==
    IF d > Len(search_dirs) THEN <<>>
    ELSE SelectSeq([i \in 1..Len(tree.files) |-> i],
                   LAMBDA i : /\ tree.files[i].dir = search_dirs[d]
                              /\ EndsWith(tree.files[i].name, suffix))
         \o GlobDirs(tree, suffix, d + 1)

\* Line 456: found_manifest_paths.
FoundManifestPaths(tree) ==
    IF ~tree.exists THEN <<>>
    ELSE GlobDirs(tree, ".yaml", 1) \o GlobDirs(tree, ".yml", 1)

\* Op(v), v being evaluated once (a LET definition is evaluated again at
\* every place that reads it when TLC evaluates ENABLED).
Once(Op(_), v) == CHOOSE y \in {Op(x) : x \in {v}} : TRUE

\* Lines 459-466: the loop over the manifests found, from position i on.
\* Returns the files as the loop leaves them, the accumulated flag, and
\* whether a call of the transform raised (the files before it are written).
RECURSIVE AnalyzeLoop(_, _, _, _, _, _)
AnalyzeLoop(files, found, i, deployment_name, language, needed) ==
    IF i > Len(found)
    THEN [files |-> files, instrumentation_changes_needed |-> needed, raised |-> FALSE]
    ELSE LET manifest_path == found[i]
             rest(r) ==
                 LET written == IF r.any_changes_made
                                THEN [files EXCEPT ![manifest_path].text = r.yaml]
                                ELSE files
                 IN  IF r.raised
                     THEN [files |-> files, instrumentation_changes_needed |-> needed,
                           raised |-> TRUE]
                     ELSE AnalyzeLoop(written, found, i + 1, deployment_name, language,
                                      needed \/ r.instrumentation_changes_made)
         IN  Once(rest, modify_kubernetes_manifest(files[manifest_path].text,
                            deployment_name, ImageName(deployment_name), language))

\* Line 478: the path of the artifact of a manifest.
OutputPath(deployment_name, manifest_name) ==
    K8S_OUTPUT_DIR \o "/" \o deployment_name \o "-" \o manifest_name

\* Line 408: manifest_dir.glob(f"{deployment_name}-*.yaml") on one path of
\* the artifact directory.
TeardownGlobMatches(path, deployment_name) ==
    LET prefix == K8S_OUTPUT_DIR \o "/" \o deployment_name \o "-"
    IN  /\ StartsWith(path, prefix)
        /\ EndsWith(path, ".yaml")
        /\ Len(path) >= Len(prefix) + Len(".yaml")

\* A set of strings as a sequence (the order a directory listing gives).
RECURSIVE SetToSeq(_)
SetToSeq(S) ==
    IF S = {} THEN <<>>
    ELSE LET x == CHOOSE x \in S : TRUE IN <<x>> \o SetToSeq(S \ {x})

(***************************************************************************)
(* Status strings of the pipeline, in the order of the code.               *)
(***************************************************************************)
StCreated == "Created"
StCloning == "Cloning repository..."
StBuilding == "Building Docker image..."
StAnalyzing == "Analyzing Kubernetes manifests..."
StPushing == "Pushing manifest changes to Git..."
StAlready == "Manifests already instrumented."
StNoPush == "Proceeding without pushing changes to Git."
StDeploying == "Deploying to Kubernetes..."
StDashboard == "Generating Grafana dashboard..."
StDeployed == "Deployed"
StFailed == "Failed"
StUndeploying == "Undeploying"
StUndeployFailed == "Undeploy Failed"

\* json.dumps(panel_links) of the four links of a provisioned dashboard.
PanelLinks(deployment_name) == "links(traceassist-" \o deployment_name \o ")"

(***************************************************************************)
(* State.                                                                  *)
(***************************************************************************)
VARIABLES
    \* SpecTransform: the arguments of the transform and the calls made
    tYaml,      \* the text the next call is given
    tAppId,     \* the deployment id of every call
    tImage,     \* the image reference of every call
    calls,      \* the calls so far: argument text, language and result
    \* SpecDetect: the argument of detect_language and what it returned
    dPath,      \* the directory tree at app_path, or NoDirectory
    dLanguage,  \* None before the call, then the language returned
    \* Spec: the backend
    db,         \* the deployments table
    checkout,   \* BASE_DIR/<name>: the local checkout of each name
    artifacts,  \* the files of K8S_OUTPUT_DIR: [path, by], by the name whose
                \* run wrote the file last
    remote,     \* the repository behind each URL
    req,        \* the request each handler is serving, and where it stands
    \* history
    deployedWithDashboard
                \* the names whose present record was brought to status
                \* Deployed by a run that provisioned the dashboard

tvars == <<tYaml, tAppId, tImage, calls, dPath, dLanguage>>
pvars == <<db, checkout, artifacts, remote, req, deployedWithDashboard>>
vars == <<tYaml, tAppId, tImage, calls, dPath, dLanguage, db, checkout, artifacts, remote, req, deployedWithDashboard>>

Handlers == {"h1", "h2"}

NoInput == [repo_url |-> None, pat_token |-> None, push_to_git |-> FALSE]

\* A handler serving no request.  The fields are the locals of the three
\* endpoints; log is the list of what the request has done so far: the
\* statuses it persisted and the external calls it made.
Idle ==
    [op |-> "idle", pc |-> "idle", name |-> None, input |-> NoInput,
     language |-> None, db_deployment |-> NoRow, pat_token |-> None,
     found |-> <<>>, k |-> 0, instrumentation_changes_needed |-> FALSE,
     panel_links |-> None, response |-> 0, log |-> <<>>]

InitBackend ==
    /\ db = {}
    /\ checkout = [n \in Names |-> NoTree]
    /\ artifacts = {}
    /\ req = [h \in Handlers |-> Idle]
    /\ deployedWithDashboard = {}

\* No call of detect_language on its own.
InitNoDetect ==
    /\ dPath = NoDirectory
    /\ dLanguage = None

(***************************************************************************)
(* SpecTransform: a manifest is transformed, and the output transformed    *)
(* again, with a language chosen at each call.                             *)
(***************************************************************************)
InitTransform ==
    /\ tAppId \in AppIds
    /\ tImage = ImageName(tAppId)
    /\ tYaml \in Texts(tAppId, tImage)
    /\ calls = <<>>
    /\ InitNoDetect
    /\ InitBackend
    /\ remote = [u \in RepoUrls |-> NoTree]

\* One call modify_kubernetes_manifest(yaml_content, app_id, image_name, language),
\* the text it returns becoming the argument of the next call.
CallTransform(language) ==
    /\ Len(calls) < MaxCalls
    /\ IF calls = <<>> THEN TRUE ELSE ~calls[Len(calls)].raised
    /\ LET r == modify_kubernetes_manifest(tYaml, tAppId, tImage, language)
       IN  /\ calls' = Append(calls,
                  [input |-> tYaml, language |-> language, yaml |-> r.yaml,
                   any_changes_made |-> r.any_changes_made,
                   instrumentation_changes_made |-> r.instrumentation_changes_made,
                   raised |-> r.raised])
           /\ tYaml' = r.yaml
    /\ UNCHANGED <<tAppId, tImage, dPath, dLanguage>>
    /\ UNCHANGED pvars

NextTransform == \E language \in {"unknown", "python"} : CallTransform(language)

SpecTransform == InitTransform /\ [][NextTransform]_vars

(***************************************************************************)
(* SpecDetect: detect_language is called on a directory tree.              *)
(***************************************************************************)
InitDetect ==
    /\ dPath \in WalkTrees
    /\ dLanguage = None
    /\ tYaml = <<>> /\ tAppId = None /\ tImage = None /\ calls = <<>>
    /\ InitBackend
    /\ remote = [u \in RepoUrls |-> NoTree]

CallDetect ==
    /\ dLanguage = None
    /\ dLanguage' = DetectLanguageAt(dPath)
    /\ UNCHANGED <<tYaml, tAppId, tImage, calls, dPath>>
    /\ UNCHANGED pvars

NextDetect == CallDetect

SpecDetect == InitDetect /\ [][NextDetect]_vars

(***************************************************************************)
(* Spec: the three endpoints that change state, one action per step of a   *)
(* handler.  A step that writes a status is apart from the external call   *)
(* that follows it.                                                        *)
(***************************************************************************)
Init ==
    /\ tYaml = <<>>
    /\ tAppId = None
    /\ tImage = None
    /\ calls = <<>>
    /\ InitNoDetect
    /\ InitBackend
    /\ remote \in [RepoUrls -> Repositories]

\* h moves to pc with the given events added to its log.
Goto(h, pc, events) ==
    req' = [req EXCEPT ![h].pc = pc, ![h].log = @ \o events]

\* h ends its request with an HTTP status code.
Answer(h, code, events) ==
    req' = [req EXCEPT ![h].pc = "done", ![h].response = code, ![h].log = @ \o events]

\* crud.update_deployment_status by handler h, and its trace in the log: the
\* status when a row took it, "no row" when there was none.
WriteStatus(h, status) ==
    db' = update_deployment_status(db, req[h].name, status)

StatusEvent(h, status) ==
    IF get_deployment_by_name(db, req[h].name) = NoRow THEN <<"no row">> ELSE <<status>>

(***************************************************************************)
(* The endpoints are coroutines (async def, lines 357, 401, 430) of one    *)
(* event loop and every call they make blocks it, but for the two they     *)
(* await: verify_pat (line 361, reached when the request has a token) and  *)
(* generate_and_upload_grafana_dashboard (line 483).  A handler therefore  *)
(* steps only while every other one is at an await, has returned, or       *)
(* serves nothing.                                                         *)
(***************************************************************************)
Awaiting(h) ==
    \/ req[h].pc \in {"idle", "done", "dashboard"}
    \/ req[h].pc = "insert" /\ req[h].input.pat_token # None

MayStep(h) == \A g \in Handlers \ {h} : Awaiting(g)

\* The response is sent and the handler is free again.
Respond(h) ==
    /\ MayStep(h)
    /\ req[h].pc = "done"
    /\ req' = [req EXCEPT ![h] = Idle]
    /\ UNCHANGED <<db, checkout, artifacts, remote>>
    /\ UNCHANGED <<tvars, deployedWithDashboard>>

(***************************************************************************)
(* POST /deployments: create_deployment_final.                             *)
(***************************************************************************)
\* Lines 360-374: the calls a create request makes after the name check,
\* with their answers: verify_pat when there is a token, the push probe when
\* the token verified and a push is asked for, the trial clone when no
\* check has failed.
CreateChecks(pat_token, push_to_git, verified, can_push, cloned) ==
    LET verify == IF pat_token = None THEN <<>>
                  ELSE IF verified THEN <<"verify_pat ok">> ELSE <<"verify_pat failed">>
        probe  == IF pat_token = None \/ ~verified \/ ~push_to_git THEN <<>>
                  ELSE IF can_push THEN <<"push probe ok">> ELSE <<"push probe failed">>
        clone  == IF (pat_token # None /\ ~verified) \/ (pat_token # None /\ push_to_git /\ ~can_push)
                  THEN <<>>
                  ELSE IF cloned THEN <<"trial clone ok">> ELSE <<"trial clone failed">>
    IN  verify \o probe \o clone

\* CreateRequest without the lookup of line 358: the request goes on to the
\* insert whatever the table holds.
CreateRequest_NoNameCheck(h, deployment_name, repo_url, pat_token, push_to_git, verified, can_push, cloned) ==
    /\ MayStep(h)
    /\ req[h].op = "idle"
    /\ LET started == [Idle EXCEPT !.op = "create", !.name = deployment_name,
                          !.input = [repo_url |-> repo_url, pat_token |-> pat_token,
                                     push_to_git |-> push_to_git]]
           checks == CreateChecks(pat_token, push_to_git, verified, can_push, cloned)
           reject(code) == req' = [req EXCEPT ![h] =
                              [started EXCEPT !.pc = "done", !.response = code,
                                              !.log = checks]]
       IN  IF pat_token # None /\ ~verified THEN reject(400)
           ELSE IF pat_token # None /\ push_to_git /\ ~can_push THEN reject(403)
           ELSE IF ~cloned THEN reject(400)
           ELSE req' = [req EXCEPT ![h] =
                   [started EXCEPT !.pc = "insert", !.log = checks,
                       !.language = detect_language(remote[repo_url].has_package_json,
                                        remote[repo_url].py_count,
                                        remote[repo_url].java_count)]]
    /\ UNCHANGED <<db, checkout, artifacts, remote>>
    /\ UNCHANGED <<tvars, deployedWithDashboard>>

\* CreateRequest that goes on whatever the push probe answers.
CreateRequest_ProbeIgnored(h, deployment_name, repo_url, pat_token, push_to_git, verified, can_push, cloned) ==
    /\ MayStep(h)
    /\ req[h].op = "idle"
    /\ LET started == [Idle EXCEPT !.op = "create", !.name = deployment_name,
                          !.input = [repo_url |-> repo_url, pat_token |-> pat_token,
                                     push_to_git |-> push_to_git]]
           checks == CreateChecks(pat_token, push_to_git, verified, can_push, cloned)
           reject(code) == req' = [req EXCEPT ![h] =
                              [started EXCEPT !.pc = "done", !.response = code,
                                              !.log = IF code = 409 THEN <<>> ELSE checks]]
       IN  IF get_deployment_by_name(db, deployment_name) # NoRow THEN reject(409)
           ELSE IF pat_token # None /\ ~verified THEN reject(400)
           ELSE IF ~cloned THEN reject(400)
           ELSE req' = [req EXCEPT ![h] =
                   [started EXCEPT !.pc = "insert", !.log = checks,
                       !.language = detect_language(remote[repo_url].has_package_json,
                                        remote[repo_url].py_count,
                                        remote[repo_url].java_count)]]
    /\ UNCHANGED <<db, checkout, artifacts, remote>>
    /\ UNCHANGED <<tvars, deployedWithDashboard>>

\* Lines 358-376: the name check, the token checks and the trial clone.
\* verified, can_push and cloned are the answers of the hosting provider.
CreateRequest(h, deployment_name, repo_url, pat_token, push_to_git, verified, can_push, cloned) ==
    /\ MayStep(h)
    /\ req[h].op = "idle"
    /\ LET started == [Idle EXCEPT !.op = "create", !.name = deployment_name,
                          !.input = [repo_url |-> repo_url, pat_token |-> pat_token,
                                     push_to_git |-> push_to_git]]
           checks == CreateChecks(pat_token, push_to_git, verified, can_push, cloned)
           reject(code) == req' = [req EXCEPT ![h] =
                              [started EXCEPT !.pc = "done", !.response = code,
                                              !.log = IF code = 409 THEN <<>> ELSE checks]]
       IN  IF get_deployment_by_name(db, deployment_name) # NoRow THEN reject(409)
           ELSE IF pat_token # None /\ ~verified THEN reject(400)
           ELSE IF pat_token # None /\ push_to_git /\ ~can_push THEN reject(403)
           ELSE IF ~cloned THEN reject(400)
           ELSE req' = [req EXCEPT ![h] =
                   [started EXCEPT !.pc = "insert", !.log = checks,
                       !.language = detect_language(remote[repo_url].has_package_json,
                                        remote[repo_url].py_count,
                                        remote[repo_url].java_count)]]
    /\ UNCHANGED <<db, checkout, artifacts, remote>>
    /\ UNCHANGED <<tvars, deployedWithDashboard>>

\* Lines 377-387: the token is encrypted and the row inserted.
CreateInsert(h) ==
    /\ MayStep(h)
    /\ req[h].op = "create" /\ req[h].pc = "insert"
    /\ LET encrypted_token_str ==
               IF req[h].input.pat_token # None
               THEN encrypt(req[h].input.pat_token) ELSE None
       IN  IF ViolatesUnique(db, req[h].name)
           THEN /\ db' = db
                /\ Answer(h, 500, <<>>)
                /\ UNCHANGED deployedWithDashboard
           ELSE /\ db' = create_deployment(db, req[h].name, req[h].input.repo_url,
                             encrypted_token_str, req[h].language,
                             req[h].input.push_to_git, StCreated)
                /\ Answer(h, 201, <<StCreated>>)
                /\ deployedWithDashboard' = deployedWithDashboard \ {req[h].name}
    /\ UNCHANGED <<checkout, artifacts, remote>>
    /\ UNCHANGED tvars

(***************************************************************************)
(* POST /deployments/{name}/instrument: instrument_and_deploy.             *)
(***************************************************************************)
\* InstrumentRequest behind a lock on the name: a request for a name that
\* another handler is instrumenting is answered 409.
InstrumentRequest_Exclusive(h, deployment_name) ==
    /\ MayStep(h)
    /\ req[h].op = "idle"
    /\ LET db_deployment == get_deployment_by_name(db, deployment_name)
           started == [Idle EXCEPT !.op = "instrument", !.name = deployment_name,
                                   !.db_deployment = db_deployment]
           busy == \E g \in Handlers \ {h} :
                      req[g].op = "instrument" /\ req[g].name = deployment_name
       IN  IF db_deployment = NoRow
           THEN req' = [req EXCEPT ![h] = [started EXCEPT !.pc = "done", !.response = 404]]
           ELSE IF busy
           THEN req' = [req EXCEPT ![h] = [started EXCEPT !.pc = "done", !.response = 409]]
           ELSE req' = [req EXCEPT ![h] = [started EXCEPT !.pc = "status cloning"]]
    /\ UNCHANGED <<db, checkout, artifacts, remote>>
    /\ UNCHANGED <<tvars, deployedWithDashboard>>

\* Lines 431-434.
InstrumentRequest(h, deployment_name) ==
    /\ MayStep(h)
    /\ req[h].op = "idle"
    /\ LET db_deployment == get_deployment_by_name(db, deployment_name)
           started == [Idle EXCEPT !.op = "instrument", !.name = deployment_name,
                                   !.db_deployment = db_deployment]
       IN  IF db_deployment = NoRow
           THEN req' = [req EXCEPT ![h] = [started EXCEPT !.pc = "done", !.response = 404]]
           ELSE req' = [req EXCEPT ![h] = [started EXCEPT !.pc = "status cloning"]]
    /\ UNCHANGED <<db, checkout, artifacts, remote>>
    /\ UNCHANGED <<tvars, deployedWithDashboard>>

\* Line 436.
StatusCloning(h) ==
    /\ MayStep(h)
    /\ req[h].op = "instrument" /\ req[h].pc = "status cloning"
    /\ WriteStatus(h, StCloning)
    /\ Goto(h, "clone", StatusEvent(h, StCloning))
    /\ UNCHANGED <<checkout, artifacts, remote>>
    /\ UNCHANGED <<tvars, deployedWithDashboard>>

\* Lines 437-446: the token is decrypted, a stale checkout removed and the
\* repository cloned; the clone fails or not.
Clone(h, cloned) ==
    /\ MayStep(h)
    /\ req[h].op = "instrument" /\ req[h].pc = "clone"
    /\ LET row == req[h].db_deployment
           pat_token == IF row.encrypted_pat_token # None
                        THEN decrypt(row.encrypted_pat_token) ELSE None
           effective_clone_url == EffectiveCloneUrl(row.repo_url, pat_token)
       IN  IF cloned
           THEN /\ checkout' = [checkout EXCEPT ![req[h].name] =
                       [remote[row.repo_url] EXCEPT !.origin = effective_clone_url]]
                /\ req' = [req EXCEPT ![h].pc = "status building",
                                      ![h].pat_token = pat_token,
                                      ![h].log = @ \o <<"clone">>]
           ELSE /\ checkout' = [checkout EXCEPT ![req[h].name] = NoTree]
                /\ req' = [req EXCEPT ![h].pc = "failed",
                                      ![h].pat_token = pat_token,
                                      ![h].log = @ \o <<"clone", "error">>]
    /\ UNCHANGED <<db, artifacts, remote>>
    /\ UNCHANGED <<tvars, deployedWithDashboard>>

\* StatusBuilding without the write of line 447.
StatusBuilding_Skipped(h) ==
    /\ MayStep(h)
    /\ req[h].op = "instrument" /\ req[h].pc = "status building"
    /\ Goto(h, "build", <<>>)
    /\ UNCHANGED <<db, checkout, artifacts, remote>>
    /\ UNCHANGED <<tvars, deployedWithDashboard>>

\* Line 447.
StatusBuilding(h) ==
    /\ MayStep(h)
    /\ req[h].op = "instrument" /\ req[h].pc = "status building"
    /\ WriteStatus(h, StBuilding)
    /\ Goto(h, "build", StatusEvent(h, StBuilding))
    /\ UNCHANGED <<checkout, artifacts, remote>>
    /\ UNCHANGED <<tvars, deployedWithDashboard>>

\* Build with subprocess.run(..., check=False): a failed build does not raise.
Build_IgnoresExit(h, built) ==
    /\ MayStep(h)
    /\ req[h].op = "instrument" /\ req[h].pc = "build"
    /\ IF ~(checkout[req[h].name].exists /\ checkout[req[h].name].dockerfile)
       THEN Goto(h, "failed", <<"Dockerfile not found", "error">>)
       ELSE IF built THEN Goto(h, "status analyzing", <<"build">>)
       ELSE Goto(h, "status analyzing", <<"build", "error">>)
    /\ UNCHANGED <<db, checkout, artifacts, remote>>
    /\ UNCHANGED <<tvars, deployedWithDashboard>>

\* Lines 448-453: without a Dockerfile an HTTPException(404) is raised
\* inside the try block; otherwise docker build runs, and exits zero or not.
Build(h, built) ==
    /\ MayStep(h)
    /\ req[h].op = "instrument" /\ req[h].pc = "build"
    /\ IF ~(checkout[req[h].name].exists /\ checkout[req[h].name].dockerfile)
       THEN Goto(h, "failed", <<"Dockerfile not found", "error">>)
       ELSE IF built THEN Goto(h, "status analyzing", <<"build">>)
       ELSE Goto(h, "failed", <<"build", "error">>)
    /\ UNCHANGED <<db, checkout, artifacts, remote>>
    /\ UNCHANGED <<tvars, deployedWithDashboard>>

\* Line 454.
StatusAnalyzing(h) ==
    /\ MayStep(h)
    /\ req[h].op = "instrument" /\ req[h].pc = "status analyzing"
    /\ WriteStatus(h, StAnalyzing)
    /\ Goto(h, "analyze", StatusEvent(h, StAnalyzing))
    /\ UNCHANGED <<checkout, artifacts, remote>>
    /\ UNCHANGED <<tvars, deployedWithDashboard>>

\* Lines 455-466: the manifests are found (none: HTTPException(404), raised
\* inside the try block), each is transformed with the language of the record and written back when it
\* changed.
Analyze(h) ==
    /\ MayStep(h)
    /\ req[h].op = "instrument" /\ req[h].pc = "analyze"
    /\ LET tree == checkout[req[h].name]
           found_manifest_paths == FoundManifestPaths(tree)
           language == req[h].db_deployment.language
           r == AnalyzeLoop(tree.files, found_manifest_paths, 1, req[h].name,
                            language, FALSE)
       IN  IF found_manifest_paths = <<>>
           THEN /\ Goto(h, "failed", <<"no manifests found", "error">>)
                /\ checkout' = checkout
           ELSE /\ checkout' = [checkout EXCEPT ![req[h].name].files = r.files]
                /\ IF r.raised
                   THEN req' = [req EXCEPT ![h].pc = "failed",
                                   ![h].found = found_manifest_paths,
                                   ![h].log = @ \o <<"transform", "error">>]
                   ELSE req' = [req EXCEPT ![h].pc = "gate",
                                   ![h].found = found_manifest_paths,
                                   ![h].instrumentation_changes_needed =
                                       r.instrumentation_changes_needed,
                                   ![h].log = @ \o <<"transform">>]
    /\ UNCHANGED <<db, artifacts, remote>>
    /\ UNCHANGED <<tvars, deployedWithDashboard>>

\* The condition of the push without the push-enabled flag of the record.
PushCondition_IgnoresFlag(instrumentation_changes_needed, pat_token, push_enabled) ==
    instrumentation_changes_needed /\ pat_token # None

\* Line 467: the condition of the push.
PushCondition(instrumentation_changes_needed, pat_token, push_enabled) ==
    instrumentation_changes_needed /\ pat_token # None /\ push_enabled

\* Gate with one status for both branches that do not push.
Gate_OneMessage(h) ==
    /\ MayStep(h)
    /\ req[h].op = "instrument" /\ req[h].pc = "gate"
    /\ IF req[h].instrumentation_changes_needed /\ req[h].pat_token # None
          /\ req[h].db_deployment.push_enabled
       THEN /\ WriteStatus(h, StPushing)
            /\ Goto(h, "push", StatusEvent(h, StPushing))
       ELSE /\ WriteStatus(h, StAlready)
            /\ Goto(h, "status deploying", StatusEvent(h, StAlready))
    /\ UNCHANGED <<checkout, artifacts, remote>>
    /\ UNCHANGED <<tvars, deployedWithDashboard>>

\* Lines 467-475: the status of the branch taken.
Gate(h) ==
    /\ MayStep(h)
    /\ req[h].op = "instrument" /\ req[h].pc = "gate"
    /\ IF PushCondition(req[h].instrumentation_changes_needed, req[h].pat_token,
                        req[h].db_deployment.push_enabled)
       THEN /\ WriteStatus(h, StPushing)
            /\ Goto(h, "push", StatusEvent(h, StPushing))
       ELSE IF ~req[h].instrumentation_changes_needed
       THEN /\ WriteStatus(h, StAlready)
            /\ Goto(h, "status deploying", StatusEvent(h, StAlready))
       ELSE /\ WriteStatus(h, StNoPush)
            /\ Goto(h, "status deploying", StatusEvent(h, StNoPush))
    /\ UNCHANGED <<checkout, artifacts, remote>>
    /\ UNCHANGED <<tvars, deployedWithDashboard>>

\* Push whose commit does not carry the patched manifests.
Push_CommitLost(h, pushed) ==
    /\ MayStep(h)
    /\ req[h].op = "instrument" /\ req[h].pc = "push"
    /\ IF ~checkout[req[h].name].exists
       THEN /\ Goto(h, "failed", <<"git add", "error">>)
            /\ remote' = remote
       ELSE IF pushed
       THEN /\ remote' = [remote EXCEPT
                   ![req[h].db_deployment.repo_url].commits = @ \cup {req[h].name}]
            /\ Goto(h, "status deploying", <<"git add", "commit", "push">>)
       ELSE /\ remote' = remote
            /\ Goto(h, "failed", <<"git add", "commit", "push", "error">>)
    /\ UNCHANGED <<db, checkout, artifacts>>
    /\ UNCHANGED <<tvars, deployedWithDashboard>>

\* Lines 469-471: git add, commit and push; the push is accepted or not.
Push(h, pushed) ==
    /\ MayStep(h)
    /\ req[h].op = "instrument" /\ req[h].pc = "push"
    /\ IF ~checkout[req[h].name].exists
       THEN /\ Goto(h, "failed", <<"git add", "error">>)
            /\ remote' = remote
       ELSE IF pushed
       THEN /\ remote' = [remote EXCEPT
                   ![req[h].db_deployment.repo_url].files = checkout[req[h].name].files,
                   ![req[h].db_deployment.repo_url].commits = @ \cup {req[h].name}]
            /\ Goto(h, "status deploying", <<"git add", "commit", "push">>)
       ELSE /\ remote' = remote
            /\ Goto(h, "failed", <<"git add", "commit", "push", "error">>)
    /\ UNCHANGED <<db, checkout, artifacts>>
    /\ UNCHANGED <<tvars, deployedWithDashboard>>

\* Line 476.
StatusDeploying(h) ==
    /\ MayStep(h)
    /\ req[h].op = "instrument" /\ req[h].pc = "status deploying"
    /\ WriteStatus(h, StDeploying)
    /\ req' = [req EXCEPT ![h].pc = "apply", ![h].k = 1,
                          ![h].log = @ \o StatusEvent(h, StDeploying)]
    /\ UNCHANGED <<checkout, artifacts, remote>>
    /\ UNCHANGED <<tvars, deployedWithDashboard>>

\* The artifact directory after a write of path by a run of deployment_name.
WriteArtifact(files, path, deployment_name) ==
    {a \in files : a.path # path} \cup {[path |-> path, by |-> deployment_name]}

\* Lines 477-480, one iteration: the manifest is copied to the artifact
\* directory and kubectl apply runs on the copy; it exits zero or not.
Apply(h, applied) ==
    /\ MayStep(h)
    /\ req[h].op = "instrument" /\ req[h].pc = "apply"
    /\ LET tree == checkout[req[h].name]
           manifest_path == req[h].found[req[h].k]
           output_path == OutputPath(req[h].name, tree.files[manifest_path].name)
       IN  IF ~tree.exists \/ manifest_path > Len(tree.files)
           THEN /\ Goto(h, "failed", <<"error">>)
                /\ artifacts' = artifacts
           ELSE /\ artifacts' = WriteArtifact(artifacts, output_path, req[h].name)
                /\ IF ~applied THEN Goto(h, "failed", <<"apply", "error">>)
                   ELSE IF req[h].k < Len(req[h].found)
                   THEN req' = [req EXCEPT ![h].k = @ + 1, ![h].log = @ \o <<"apply">>]
                   ELSE Goto(h, "status dashboard", <<"apply">>)
    /\ UNCHANGED <<db, checkout, remote>>
    /\ UNCHANGED <<tvars, deployedWithDashboard>>

\* Line 482.
StatusDashboard(h) ==
    /\ MayStep(h)
    /\ req[h].op = "instrument" /\ req[h].pc = "status dashboard"
    /\ WriteStatus(h, StDashboard)
    /\ Goto(h, "dashboard", StatusEvent(h, StDashboard))
    /\ UNCHANGED <<checkout, artifacts, remote>>
    /\ UNCHANGED <<tvars, deployedWithDashboard>>

\* Lines 203-312: generate_and_upload_grafana_dashboard.  The list of panel
\* links when the provisioner answered with a url, the empty list (None
\* here) on a network error, an HTTP error status or an answer without url.
generate_and_upload_grafana_dashboard(deployment_name, provisioned) ==
    IF provisioned THEN PanelLinks(deployment_name) ELSE None

\* Dashboard with a provisioner whose errors are not caught (no try block in
\* generate_and_upload_grafana_dashboard): a failed call raises in the run.
Dashboard_Raises(h, provisioned) ==
    /\ MayStep(h)
    /\ req[h].op = "instrument" /\ req[h].pc = "dashboard"
    /\ IF provisioned
       THEN req' = [req EXCEPT ![h].pc = "links",
                ![h].panel_links = PanelLinks(req[h].name),
                ![h].log = @ \o <<"dashboard">>]
       ELSE Goto(h, "failed", <<"dashboard failed", "error">>)
    /\ UNCHANGED <<db, checkout, artifacts, remote>>
    /\ UNCHANGED <<tvars, deployedWithDashboard>>

\* Line 483.
Dashboard(h, provisioned) ==
    /\ MayStep(h)
    /\ req[h].op = "instrument" /\ req[h].pc = "dashboard"
    /\ req' = [req EXCEPT ![h].pc = "links",
           ![h].panel_links = generate_and_upload_grafana_dashboard(req[h].name, provisioned),
           ![h].log = @ \o <<IF provisioned THEN "dashboard" ELSE "dashboard failed">>]
    /\ UNCHANGED <<db, checkout, artifacts, remote>>
    /\ UNCHANGED <<tvars, deployedWithDashboard>>

\* Lines 484-488: the links are stored when there are any.
StoreLinks(h) ==
    /\ MayStep(h)
    /\ req[h].op = "instrument" /\ req[h].pc = "links"
    /\ IF req[h].panel_links # None
       THEN /\ db' = update_deployment_grafana_links(db, req[h].name, req[h].panel_links)
            /\ Goto(h, "status deployed", <<"links">>)
       ELSE /\ db' = db
            /\ Goto(h, "status deployed", <<>>)
    /\ UNCHANGED <<checkout, artifacts, remote>>
    /\ UNCHANGED <<tvars, deployedWithDashboard>>

\* Lines 490-491.
StatusDeployed(h) ==
    /\ MayStep(h)
    /\ req[h].op = "instrument" /\ req[h].pc = "status deployed"
    /\ WriteStatus(h, StDeployed)
    /\ Answer(h, 200, StatusEvent(h, StDeployed))
    /\ deployedWithDashboard' =
          IF req[h].panel_links # None /\ get_deployment_by_name(db, req[h].name) # NoRow
          THEN deployedWithDashboard \cup {req[h].name}
          ELSE deployedWithDashboard
    /\ UNCHANGED <<checkout, artifacts, remote>>
    /\ UNCHANGED tvars

\* InstrumentFailed without the write of line 493.
InstrumentFailed_NoStatus(h) ==
    /\ MayStep(h)
    /\ req[h].op = "instrument" /\ req[h].pc = "failed"
    /\ db' = db
    /\ Answer(h, 500, <<>>)
    /\ UNCHANGED <<checkout, artifacts, remote>>
    /\ UNCHANGED <<tvars, deployedWithDashboard>>

\* Lines 492-495: any exception of the try block.
InstrumentFailed(h) ==
    /\ MayStep(h)
    /\ req[h].op = "instrument" /\ req[h].pc = "failed"
    /\ WriteStatus(h, StFailed)
    /\ Answer(h, 500, StatusEvent(h, StFailed))
    /\ UNCHANGED <<checkout, artifacts, remote>>
    /\ UNCHANGED <<tvars, deployedWithDashboard>>

(***************************************************************************)
(* DELETE /deployments/{name}: undeploy_application.                       *)
(***************************************************************************)
\* Lines 402-404.
UndeployRequest(h, deployment_name) ==
    /\ MayStep(h)
    /\ req[h].op = "idle"
    /\ LET db_deployment == get_deployment_by_name(db, deployment_name)
           started == [Idle EXCEPT !.op = "undeploy", !.name = deployment_name,
                                   !.db_deployment = db_deployment]
       IN  IF db_deployment = NoRow
           THEN req' = [req EXCEPT ![h] = [started EXCEPT !.pc = "done", !.response = 404]]
           ELSE req' = [req EXCEPT ![h] = [started EXCEPT !.pc = "status undeploying"]]
    /\ UNCHANGED <<db, checkout, artifacts, remote>>
    /\ UNCHANGED <<tvars, deployedWithDashboard>>

\* Line 408: the artifacts the teardown will delete.
ManifestFiles(files, deployment_name) ==
    SetToSeq({a.path : a \in {b \in files : TeardownGlobMatches(b.path, deployment_name)}})

\* Lines 406-410: the status is written and the artifacts are listed.
StatusUndeploying(h) ==
    /\ MayStep(h)
    /\ req[h].op = "undeploy" /\ req[h].pc = "status undeploying"
    /\ WriteStatus(h, StUndeploying)
    /\ LET manifest_files == ManifestFiles(artifacts, req[h].name)
       IN  req' = [req EXCEPT
               ![h].pc = IF manifest_files = <<>> THEN "remove checkout" ELSE "delete file",
               ![h].found = manifest_files, ![h].k = 1,
               ![h].log = @ \o StatusEvent(h, StUndeploying)]
    /\ UNCHANGED <<checkout, artifacts, remote>>
    /\ UNCHANGED <<tvars, deployedWithDashboard>>

\* Lines 412-418, one iteration.  kubectl delete exits zero or not, and
\* os.remove succeeds or raises; either exception is logged and the loop
\* goes on (the except clause of line 417).
DeleteFile(h, outcome) ==
    /\ MayStep(h)
    /\ req[h].op = "undeploy" /\ req[h].pc = "delete file"
    /\ LET file_path == req[h].found[req[h].k]
           next_pc == IF req[h].k < Len(req[h].found) THEN "delete file"
                      ELSE "remove checkout"
           step(events) == req' = [req EXCEPT ![h].pc = next_pc, ![h].k = @ + 1,
                                       ![h].log = @ \o events]
       IN  CASE outcome = "deleted" ->
                    /\ artifacts' = {a \in artifacts : a.path # file_path}
                    /\ step(<<"kubectl delete", "remove">>)
             [] outcome = "kubectl failed" ->
                    /\ artifacts' = artifacts
                    /\ step(<<"kubectl delete", "swallowed error">>)
             [] outcome = "remove failed" ->
                    /\ artifacts' = artifacts
                    /\ step(<<"kubectl delete", "remove", "swallowed error">>)
    /\ UNCHANGED <<db, checkout, remote>>
    /\ UNCHANGED <<tvars, deployedWithDashboard>>

\* Lines 419-423: the checkout is removed and the row deleted; rmtree raises
\* or not, and so does the delete.
RemoveCheckoutAndRecord(h, removed, deleted) ==
    /\ MayStep(h)
    /\ req[h].op = "undeploy" /\ req[h].pc = "remove checkout"
    /\ LET rmtree == IF checkout[req[h].name].exists THEN <<"rmtree">> ELSE <<>>
       IN  IF checkout[req[h].name].exists /\ ~removed
           THEN /\ Goto(h, "undeploy failed", rmtree \o <<"error">>)
                /\ UNCHANGED <<db, checkout>>
           ELSE /\ checkout' = [checkout EXCEPT ![req[h].name] = NoTree]
                /\ IF deleted
                   THEN /\ db' = delete_deployment_by_name(db, req[h].name)
                        /\ Answer(h, 200, rmtree \o <<"delete record">>)
                   ELSE /\ db' = db
                        /\ Goto(h, "undeploy failed",
                                rmtree \o <<"delete record", "error">>)
    /\ UNCHANGED <<artifacts, remote>>
    /\ UNCHANGED <<tvars, deployedWithDashboard>>

\* Lines 424-427.
UndeployFailed(h) ==
    /\ MayStep(h)
    /\ req[h].op = "undeploy" /\ req[h].pc = "undeploy failed"
    /\ WriteStatus(h, StUndeployFailed)
    /\ Answer(h, 500, StatusEvent(h, StUndeployFailed))
    /\ UNCHANGED <<checkout, artifacts, remote>>
    /\ UNCHANGED <<tvars, deployedWithDashboard>>

(***************************************************************************)
(* The steps of one handler, and Spec: requests served one at a time by    *)
(* handler h1.                                                             *)
(***************************************************************************)
Create(h, names) ==
    \/ \E deployment_name \in names, repo_url \in RepoUrls,
          pat_token \in Tokens \cup {None}, push_to_git \in BOOLEAN,
          verified \in BOOLEAN, can_push \in BOOLEAN, cloned \in BOOLEAN :
            CreateRequest(h, deployment_name, repo_url, pat_token, push_to_git,
                          verified, can_push, cloned)
    \/ CreateInsert(h)

Instrument(h, names) ==
    \/ \E deployment_name \in names : InstrumentRequest(h, deployment_name)
    \/ StatusCloning(h)
    \/ \E cloned \in BOOLEAN : Clone(h, cloned)
    \/ StatusBuilding(h)
    \/ \E built \in BOOLEAN : Build(h, built)
    \/ StatusAnalyzing(h)
    \/ Analyze(h)
    \/ Gate(h)
    \/ \E pushed \in BOOLEAN : Push(h, pushed)
    \/ StatusDeploying(h)
    \/ \E applied \in BOOLEAN : Apply(h, applied)
    \/ StatusDashboard(h)
    \/ \E provisioned \in BOOLEAN : Dashboard(h, provisioned)
    \/ StoreLinks(h)
    \/ StatusDeployed(h)
    \/ InstrumentFailed(h)

Undeploy(h, names) ==
    \/ \E deployment_name \in names : UndeployRequest(h, deployment_name)
    \/ StatusUndeploying(h)
    \/ \E outcome \in {"deleted", "kubectl failed", "remove failed"} : DeleteFile(h, outcome)
    \/ \E removed \in BOOLEAN, deleted \in BOOLEAN : RemoveCheckoutAndRecord(h, removed, deleted)
    \/ UndeployFailed(h)

Next ==
    \/ Create("h1", PipelineNames)
    \/ Instrument("h1", PipelineNames)
    \/ Undeploy("h1", PipelineNames)
    \/ Respond("h1")

Spec == Init /\ [][Next]_vars

(***************************************************************************)
(* SpecFair: Spec, and a handler that is serving a request takes its next  *)
(* step: the handler is a coroutine that runs on till it returns or        *)
(* raises, and every external call it waits for returns or raises.         *)
(***************************************************************************)
Serving(h) == req[h].op # "idle"

SpecFair == Init /\ [][Next]_vars /\ WF_vars(Serving("h1") /\ Next)

(***************************************************************************)
(* SpecConc: create and instrument requests served by two handlers, which  *)
(* interleave at the awaits of lines 361 and 483 (MayStep); a request      *)
(* carries the one token or none.                                          *)
(***************************************************************************)
NextConc ==
    \E h \in Handlers :
        \/ \E deployment_name \in PipelineNames, repo_url \in RepoUrls,
              pat_token \in {"ghp_tok", None}, push_to_git \in BOOLEAN,
              verified \in BOOLEAN, can_push \in BOOLEAN, cloned \in BOOLEAN :
                CreateRequest(h, deployment_name, repo_url, pat_token, push_to_git,
                              verified, can_push, cloned)
        \/ CreateInsert(h)
        \/ Instrument(h, PipelineNames)
        \/ Respond(h)

SpecConc == Init /\ [][NextConc]_vars

(***************************************************************************)
(* SpecTwo: the three endpoints served one request at a time for two       *)
(* deployments of the repository that has python sources.  A create        *)
(* request carries a token the provider accepts and asks for a push; of    *)
(* the external calls, kubectl apply and the delete of the record may      *)
(* fail.  Row ids grow as records are deleted and created again, so        *)
(* requests to create stop at MaxId.                                       *)
(***************************************************************************)
InitTwo ==
    /\ Init
    /\ \A repo_url \in RepoUrls : remote[repo_url].py_count = 3

NextTwo ==
    \/ \E deployment_name \in TwoNames, repo_url \in RepoUrls :
            /\ NextId(db) <= MaxId
            /\ CreateRequest("h1", deployment_name, repo_url, "ghp_tok", TRUE, TRUE, TRUE, TRUE)
    \/ CreateInsert("h1")
    \/ \E deployment_name \in TwoNames : InstrumentRequest("h1", deployment_name)
    \/ StatusCloning("h1")
    \/ Clone("h1", TRUE)
    \/ StatusBuilding("h1")
    \/ Build("h1", TRUE)
    \/ StatusAnalyzing("h1")
    \/ Analyze("h1")
    \/ Gate("h1")
    \/ Push("h1", TRUE)
    \/ StatusDeploying("h1")
    \/ \E applied \in BOOLEAN : Apply("h1", applied)
    \/ StatusDashboard("h1")
    \/ Dashboard("h1", TRUE)
    \/ StoreLinks("h1")
    \/ StatusDeployed("h1")
    \/ InstrumentFailed("h1")
    \/ \E deployment_name \in TwoNames : UndeployRequest("h1", deployment_name)
    \/ StatusUndeploying("h1")
    \/ DeleteFile("h1", "deleted")
    \/ \E deleted \in BOOLEAN : RemoveCheckoutAndRecord("h1", TRUE, deleted)
    \/ UndeployFailed("h1")
    \/ Respond("h1")

SpecTwo == InitTwo /\ [][NextTwo]_vars

(***************************************************************************)
(* SpecTear: the three endpoints served by two handlers for one deployment *)
(* of the repository that has python sources, interleaved at the awaits    *)
(* (MayStep), so that a teardown can run while an instrument run waits for *)
(* the dashboard.  A create request carries a token the provider accepts   *)
(* and asks for a push; of the external calls, kubectl apply and the       *)
(* delete of the record may fail.                                          *)
(***************************************************************************)
NextTear ==
    \E h \in Handlers :
        \/ \E deployment_name \in PipelineNames, repo_url \in RepoUrls :
                CreateRequest(h, deployment_name, repo_url, "ghp_tok", TRUE, TRUE, TRUE, TRUE)
        \/ CreateInsert(h)
        \/ \E deployment_name \in PipelineNames : InstrumentRequest(h, deployment_name)
        \/ StatusCloning(h)
        \/ Clone(h, TRUE)
        \/ StatusBuilding(h)
        \/ Build(h, TRUE)
        \/ StatusAnalyzing(h)
        \/ Analyze(h)
        \/ Gate(h)
        \/ Push(h, TRUE)
        \/ StatusDeploying(h)
        \/ \E applied \in BOOLEAN : Apply(h, applied)
        \/ StatusDashboard(h)
        \/ Dashboard(h, TRUE)
        \/ StoreLinks(h)
        \/ StatusDeployed(h)
        \/ InstrumentFailed(h)
        \/ \E deployment_name \in PipelineNames : UndeployRequest(h, deployment_name)
        \/ StatusUndeploying(h)
        \/ DeleteFile(h, "deleted")
        \/ \E deleted \in BOOLEAN : RemoveCheckoutAndRecord(h, TRUE, deleted)
        \/ UndeployFailed(h)
        \/ Respond(h)

SpecTear == InitTwo /\ [][NextTear]_vars

(***************************************************************************)
(* SpecCreate: create requests alone, for the longer list of names, until  *)
(* the table holds MaxRecords rows.                                        *)
(***************************************************************************)
NextCreate ==
    \/ \E deployment_name \in CreateNames, repo_url \in RepoUrls,
          pat_token \in Tokens \cup {None}, push_to_git \in BOOLEAN,
          verified \in BOOLEAN, can_push \in BOOLEAN, cloned \in BOOLEAN :
            /\ Cardinality(db) < MaxRecords
            /\ CreateRequest("h1", deployment_name, repo_url, pat_token, push_to_git,
                             verified, can_push, cloned)
    \/ CreateInsert("h1")
    \/ Respond("h1")

SpecCreate == Init /\ [][NextCreate]_vars

(***************************************************************************)
(* Reading a handler's log.                                                *)
(***************************************************************************)
Has(log, e) == \E i \in DOMAIN log : log[i] = e

Last(log) == log[Len(log)]

\* The statuses of the stages, as the happy path visits them.
StageStatuses ==
    {StCloning, StBuilding, StAnalyzing, StPushing, StDeploying, StDashboard, StDeployed}

\* The external calls of the log, and the status of the stage of each.
StageOfWork ==
    [w \in {"clone", "build", "transform", "git add", "commit", "push", "apply",
            "dashboard", "dashboard failed"} |->
        CASE w = "clone" -> StCloning
          [] w = "build" -> StBuilding
          [] w = "transform" -> StAnalyzing
          [] w \in {"git add", "commit", "push"} -> StPushing
          [] w = "apply" -> StDeploying
          [] OTHER -> StDashboard]

IsStageStatus(e) == e \in StageStatuses

Instrumenting(h) == req[h].op = "instrument"

\* The run of h has transformed its manifests without an error and has taken
\* the branch of lines 467-475.
PastGate(h) ==
    /\ Instrumenting(h)
    /\ req[h].pc # "gate"
    /\ \E i \in DOMAIN req[h].log :
          /\ req[h].log[i] = "transform"
          /\ i < Len(req[h].log) => req[h].log[i + 1] # "error"

\* The three conditions of a push, read off the record and the run.
PushCase(h) ==
    /\ req[h].instrumentation_changes_needed
    /\ req[h].db_deployment.encrypted_pat_token # None
    /\ req[h].db_deployment.push_enabled

(***************************************************************************)
(* C1.  Transform idempotence: when the transform is applied to its own    *)
(* output with the same deployment id, image and language, the second call *)
(* returns the text it was given and both change flags false.              *)
(***************************************************************************)
C1_TransformIdempotent ==
    \A k \in 1..(Len(calls) - 1) :
        (calls[k + 1].language = calls[k].language /\ ~calls[k + 1].raised)
            => /\ calls[k + 1].yaml = calls[k].yaml
               /\ ~calls[k + 1].any_changes_made
               /\ ~calls[k + 1].instrumentation_changes_made

(***************************************************************************)
(* C2.  In an instrument run that returns success, the stage statuses      *)
(* persisted are, in this order, Cloning, Building, Analyzing, Pushing     *)
(* (exactly when the push was made), Deploying, Generating-dashboard,      *)
(* Deployed; and in every run, each external call (clone, build,           *)
(* transform, commit/push, apply, dashboard) comes after the status of its *)
(* stage was persisted.                                                    *)
(***************************************************************************)
C2_StatusOrder ==
    \A h \in Handlers : Instrumenting(h) =>
        LET log == req[h].log
        IN  /\ \A j \in DOMAIN log :
                  log[j] \in DOMAIN StageOfWork
                      => \E i \in 1..(j - 1) : log[i] = StageOfWork[log[j]]
            /\ (req[h].pc = "done" /\ req[h].response = 200)
                  => SelectSeq(log, IsStageStatus)
                       = <<StCloning, StBuilding, StAnalyzing>>
                         \o (IF Has(log, "push") THEN <<StPushing>> ELSE <<>>)
                         \o <<StDeploying, StDashboard, StDeployed>>

\* A run that pushed and returned success.
C2_Witness ==
    \E h \in Handlers :
        /\ Instrumenting(h) /\ req[h].pc = "done" /\ req[h].response = 200
        /\ Has(req[h].log, "push") /\ Has(req[h].log, "dashboard")

(***************************************************************************)
(* C3.  When a stage of an instrument run raises an error, the run does    *)
(* nothing more than write status Failed: the error is the last thing      *)
(* before that write, the record then holds Failed, and the run answers    *)
(* 500 without having written Deployed.                                    *)
(***************************************************************************)
C3_FailureAborts ==
    \A h \in Handlers : (Instrumenting(h) /\ Has(req[h].log, "error")) =>
        LET log == req[h].log
        IN  /\ Cardinality({i \in DOMAIN log : log[i] = "error"}) = 1
            /\ ~Has(log, StDeployed)
            /\ req[h].pc \in {"failed", "done"}
            /\ req[h].pc = "failed" => Last(log) = "error"
            /\ req[h].pc = "done" =>
                  /\ req[h].response = 500
                  /\ Last(log) = StFailed
                  /\ log[Len(log) - 1] = "error"
                  /\ get_deployment_by_name(db, req[h].name).status = StFailed

\* A run whose push was refused, after it persisted the Pushing status.
C3_Witness ==
    \E h \in Handlers :
        /\ Instrumenting(h) /\ req[h].pc = "done"
        /\ Has(req[h].log, "push") /\ Has(req[h].log, "error")
        /\ get_deployment_by_name(db, req[h].name).status = StFailed

(***************************************************************************)
(* C4.  In a run past the Analyzing stage, the commit-and-push is made if  *)
(* and only if a manifest needed an instrumentation change, the record has *)
(* a token and its push-enabled flag is true, and the status "Pushing      *)
(* manifest changes to Git..." is persisted in exactly those runs; no run  *)
(* pushes before that.                                                     *)
(***************************************************************************)
C4_PushGate ==
    \A h \in Handlers : Instrumenting(h) =>
        LET log == req[h].log
        IN  IF PastGate(h)
            THEN /\ Has(log, StPushing) <=> PushCase(h)
                 /\ req[h].pc # "push" => (Has(log, "git add") <=> PushCase(h))
            ELSE ~Has(log, StPushing) /\ ~Has(log, "git add") /\ ~Has(log, "push")

\* A run that pushed.
C4_Witness ==
    \E h \in Handlers :
        PastGate(h) /\ PushCase(h) /\ Has(req[h].log, "push") /\ req[h].pc = "apply"

(***************************************************************************)
(* C5.  In a run where an instrumentation change occurs, a token is        *)
(* present and push-enabled is false, the status "Proceeding without       *)
(* pushing changes to Git." is persisted, nothing is committed or pushed,  *)
(* and the run, when no apply fails, ends with status Deployed.            *)
(***************************************************************************)
C5_PushDisabled ==
    \A h \in Handlers :
        ( /\ PastGate(h)
          /\ req[h].instrumentation_changes_needed
          /\ req[h].db_deployment.encrypted_pat_token # None
          /\ ~req[h].db_deployment.push_enabled ) =>
        LET log == req[h].log
        IN  /\ Has(log, StNoPush)
            /\ ~Has(log, "git add") /\ ~Has(log, "commit") /\ ~Has(log, "push")
            /\ (req[h].pc = "done" /\ ~Has(log, "error")) =>
                  /\ req[h].response = 200
                  /\ Last(log) = StDeployed
                  /\ get_deployment_by_name(db, req[h].name).status = StDeployed

\* Such a run, ended.
C5_Witness ==
    \E h \in Handlers :
        /\ PastGate(h) /\ req[h].pc = "done" /\ req[h].response = 200
        /\ req[h].instrumentation_changes_needed
        /\ req[h].db_deployment.encrypted_pat_token # None
        /\ ~req[h].db_deployment.push_enabled
        /\ get_deployment_by_name(db, req[h].name).status = StDeployed

(***************************************************************************)
(* C6.  In a run whose dashboard call fails, status Failed is never set,   *)
(* the run ends with status Deployed, and it persists no panel links: the  *)
(* links of the record are those it had when the run began.                *)
(***************************************************************************)
C6_DashboardTolerated ==
    \A h \in Handlers : (Instrumenting(h) /\ Has(req[h].log, "dashboard failed")) =>
        LET log == req[h].log
            row == get_deployment_by_name(db, req[h].name)
        IN  /\ ~Has(log, StFailed) /\ ~Has(log, "error") /\ ~Has(log, "links")
            /\ req[h].pc \in {"links", "status deployed", "done"}
            /\ row.grafana_panel_links = req[h].db_deployment.grafana_panel_links
            /\ req[h].pc = "done" =>
                  /\ req[h].response = 200
                  /\ Last(log) = StDeployed
                  /\ row.status = StDeployed

\* A first run, ended after a failed dashboard call: Deployed, and no links.
C6_Witness ==
    \E h \in Handlers :
        /\ Instrumenting(h) /\ Has(req[h].log, "dashboard failed")
        /\ req[h].pc = "done"
        /\ get_deployment_by_name(db, req[h].name).status = StDeployed
        /\ get_deployment_by_name(db, req[h].name).grafana_panel_links = None

(***************************************************************************)
(* C7.  Teardown failure handling: when any step of a teardown raised an   *)
(* error (the cluster delete or the file removal of one artifact, the      *)
(* removal of the checkout, the delete of the record), the teardown ends   *)
(* with status "Undeploy Failed" and the record is still there.            *)
(***************************************************************************)
C7_TeardownFailureKeepsRecord ==
    \A h \in Handlers :
        ( /\ req[h].op = "undeploy" /\ req[h].pc = "done"
          /\ (Has(req[h].log, "error") \/ Has(req[h].log, "swallowed error")) ) =>
        /\ req[h].response = 500
        /\ get_deployment_by_name(db, req[h].name) # NoRow
        /\ get_deployment_by_name(db, req[h].name).status = StUndeployFailed

(***************************************************************************)
(* C8.  After a teardown of a deployment returned success, no artifact     *)
(* written for the deployment is left in the artifact directory, its       *)
(* checkout is gone and its record is gone.                                *)
(***************************************************************************)
C8_TeardownLeavesNothing ==
    \A h \in Handlers :
        (req[h].op = "undeploy" /\ req[h].pc = "done" /\ req[h].response = 200) =>
        /\ \A a \in artifacts : a.by # req[h].name
        /\ ~checkout[req[h].name].exists
        /\ get_deployment_by_name(db, req[h].name) = NoRow

(***************************************************************************)
(* C9.  Name uniqueness: no two rows of the table have the same name, and  *)
(* a create request for a name that has a row is answered 409 and leaves   *)
(* the table as it is.                                                     *)
(***************************************************************************)
NamesUnique ==
    \A r1 \in db, r2 \in db : r1.deployment_name = r2.deployment_name => r1 = r2

CreateOfExistingRejected ==
    \A h \in Handlers :
        ( /\ req[h].op = "idle" /\ req'[h].op = "create"
          /\ get_deployment_by_name(db, req'[h].name) # NoRow ) =>
        /\ req'[h].pc = "done" /\ req'[h].response = 409
        /\ db' = db

C9_NameUnique == [] NamesUnique /\ [][CreateOfExistingRejected]_vars

\* A create request answered 409, the row of that name in the table.
C9_Witness ==
    \E h \in Handlers :
        /\ req[h].op = "create" /\ req[h].response = 409
        /\ get_deployment_by_name(db, req[h].name) # NoRow

(***************************************************************************)
(* C10.  Name validation: every row of the table has a name that is a      *)
(* DNS-1123 label: 1 to 63 characters, each a lowercase letter, a digit or *)
(* a hyphen, the first and the last not a hyphen.                          *)
(***************************************************************************)
LowerAlnum ==
    {"a", "b", "c", "d", "e", "f", "g", "h", "i", "j", "k", "l", "m", "n", "o", "p",
     "q", "r", "s", "t", "u", "v", "w", "x", "y", "z",
     "0", "1", "2", "3", "4", "5", "6", "7", "8", "9"}

IsDNS1123Label(s) ==
    /\ Len(s) >= 1 /\ Len(s) <= 63
    /\ \A i \in 1..Len(s) : SubSeq(s, i, i) \in LowerAlnum \cup {"-"}
    /\ SubSeq(s, 1, 1) # "-"
    /\ SubSeq(s, Len(s), Len(s)) # "-"

C10_NamesAreLabels == \A r \in db : IsDNS1123Label(r.deployment_name)

(***************************************************************************)
(* C11.  Validation failures of a run are answered 4xx: an instrument run  *)
(* that found no Dockerfile in its checkout, or no *.yaml / *.yml manifest *)
(* in the directories it searches, answers with a status code from 400 to  *)
(* 499.                                                                    *)
(***************************************************************************)
C11_ValidationIs4xx ==
    \A h \in Handlers :
        ( /\ Instrumenting(h) /\ req[h].pc = "done"
          /\ (Has(req[h].log, "Dockerfile not found")
                \/ Has(req[h].log, "no manifests found")) ) =>
        req[h].response \in 400..499

(***************************************************************************)
(* C12.  Panel-link invariant: a record that has dashboard panel links has *)
(* reached status Deployed through a run that provisioned the dashboard.   *)
(***************************************************************************)
C12_LinksOnlyAfterDeployed ==
    \A r \in db :
        r.grafana_panel_links # None => r.deployment_name \in deployedWithDashboard

(***************************************************************************)
(* Reading the calls of the transform.                                     *)
(***************************************************************************)
\* A Deployment document with a metadata mapping and at least one container.
IsPatchableDeployment(doc) ==
    /\ doc.type = "map" /\ doc.kind = "Deployment"
    /\ doc.metadata = "map" /\ doc.containers # <<>>

\* A structural field (name, app labels, selector, image, pull policy) of
\* the document is not the same before and after.
StructuralDiffers(before, after) ==
    \/ before.name # after.name
    \/ before.labels # after.labels \/ before.app # after.app
    \/ before.matchApp # after.matchApp \/ before.tplApp # after.tplApp
    \/ before.containers # after.containers
    \/ before.svcApp # after.svcApp

\* An instrumentation field (annotations, service account) of the document
\* is not the same before and after.
InstrumentationDiffers(before, after) ==
    \/ before.inject # after.inject
    \/ before.injectLang # after.injectLang
    \/ before.serviceAccountName # after.serviceAccountName

\* Call k returned, and in its result every Deployment document with a
\* metadata mapping and a container has the fields the transform sets.
FieldsSet(k) ==
    LET c == calls[k]
    IN  \A i \in DOMAIN c.input : IsPatchableDeployment(c.input[i].node) =>
            LET out == c.yaml[i].node
            IN  /\ out.name = tAppId \o "-deployment"
                /\ out.labels = "map" /\ out.app = tAppId
                /\ out.tplApp = tAppId /\ out.matchApp = tAppId
                /\ \E j \in DOMAIN out.containers :
                      /\ out.containers[j].image = tImage
                      /\ out.containers[j].imagePullPolicy = "Never"
                      /\ \A m \in DOMAIN out.containers \ {j} :
                            out.containers[m] = c.input[i].node.containers[m]
                /\ out.inject = "true"
                /\ c.language # "unknown" => c.language \in out.injectLang
                /\ out.serviceAccountName = "traceassist-sa"

SomeStructuralDiffers(k) ==
    \E i \in DOMAIN calls[k].input :
        StructuralDiffers(calls[k].input[i].node, calls[k].yaml[i].node)

SomeInstrumentationDiffers(k) ==
    \E i \in DOMAIN calls[k].input :
        InstrumentationDiffers(calls[k].input[i].node, calls[k].yaml[i].node)

\* Call k is on a text with a Deployment that has a metadata mapping and a
\* container, and returned.
PatchingCall(k) ==
    /\ ~calls[k].raised
    /\ \E i \in DOMAIN calls[k].input : IsPatchableDeployment(calls[k].input[i].node)

LacksLanguageAnnotation(k) ==
    \E i \in DOMAIN calls[k].input :
        LET doc == calls[k].input[i].node
        IN  /\ doc.type = "map" /\ doc.kind = "Deployment" /\ doc.metadata = "map"
            /\ calls[k].language \notin doc.injectLang

\* Call k had language "unknown" and call k + 1, on its output, a concrete
\* language; both returned.
LanguageLearned(k) ==
    /\ k + 1 \in DOMAIN calls
    /\ calls[k].language = "unknown" /\ calls[k + 1].language # "unknown"
    /\ ~calls[k].raised /\ ~calls[k + 1].raised

\* A call after k + 1 with the language of call k + 1 does not set the
\* instrumentation flag.
NoFlagAfter(k) ==
    \A m \in DOMAIN calls :
        (m > k + 1 /\ ~calls[m].raised
           /\ \A n \in (k + 1)..m : calls[n].language = calls[k + 1].language)
            => ~calls[m].instrumentation_changes_made

Visible(tree) ==
    {e \in tree : \A i \in DOMAIN e.path : e.path[i] \notin excluded_dirs}

CountOf(tree, suffix) ==
    Cardinality({e \in Visible(tree) : EndsWith(e.name, suffix)})

(***************************************************************************)
(* C15.  Language detection: with has_pkg, py and java the presence of a   *)
(* package.json and the numbers of .py and .java files in directories that *)
(* are not excluded, detect_language returns "nodejs" if has_pkg, else     *)
(* "python" if py > java, else "java" if java > 0, else "python" if        *)
(* py > 0, else "unknown"; and "unknown" when the root is not a directory. *)
(***************************************************************************)
C15_LanguageDecision ==
    dLanguage # None =>
        IF dPath = NoDirectory THEN dLanguage = "unknown"
        ELSE LET has_pkg == \E e \in Visible(dPath) : e.name = "package.json"
                 py   == CountOf(dPath, ".py")
                 java == CountOf(dPath, ".java")
             IN  dLanguage = (CASE has_pkg -> "nodejs"
                                [] ~has_pkg /\ py > java -> "python"
                                [] ~has_pkg /\ py <= java /\ java > 0 -> "java"
                                [] OTHER -> "unknown")

\* A tree with a package.json and a .java file only in excluded directories
\* and a .py file elsewhere: the answer is python.
C15_Witness ==
    /\ dLanguage = "python"
    /\ dPath # NoDirectory
    /\ \E e \in dPath : e.name = "package.json"
    /\ \E e \in dPath : e.name = "A.java"
    /\ CountOf(dPath, ".py") = 1 /\ CountOf(dPath, ".java") = 0

(***************************************************************************)
(* C16.  Token confidentiality: the plaintext of an access token is in no  *)
(* field of a record, in no checkout (the URL of its remote included) and  *)
(* in no artifact path, and the token field of a record is the ciphertext  *)
(* of a token.                                                             *)
(***************************************************************************)
Contains(s, t) ==
    \E i \in 1..(Len(s) - Len(t) + 1) : SubSeq(s, i, i + Len(t) - 1) = t

C16_TokenConfidential ==
    /\ \A r \in db :
          r.encrypted_pat_token # None => \E t \in Tokens : r.encrypted_pat_token = encrypt(t)
    /\ \A t \in Tokens :
          /\ \A r \in db :
                /\ ~Contains(r.encrypted_pat_token, t)
                /\ ~Contains(r.repo_url, t)
                /\ ~Contains(r.status, t)
                /\ ~Contains(r.grafana_panel_links, t)
          /\ \A n \in Names : ~Contains(checkout[n].origin, t)
          /\ \A a \in artifacts : ~Contains(a.path, t)

(***************************************************************************)
(* C17.  Every instrument run on an existing record comes to its end, and  *)
(* when a run that no other request interleaves with has ended, the status *)
(* of the record is Deployed or Failed: not the status of a stage, not     *)
(* "Manifests already instrumented." or "Proceeding without pushing        *)
(* changes to Git.".                                                       *)
(***************************************************************************)
EndedRunStatus ==
    \A h \in Handlers :
        (Instrumenting(h) /\ req[h].pc = "done" /\ req[h].db_deployment # NoRow) =>
            get_deployment_by_name(db, req[h].name).status \in {StDeployed, StFailed}

C17_RunsEnd ==
    /\ [] EndedRunStatus
    /\ \A h \in Handlers :
          (Instrumenting(h) /\ req[h].db_deployment # NoRow) ~> (req[h].pc = "done")

\* A run that persisted "Proceeding without pushing changes to Git.", then
\* failed in kubectl apply and has ended: the status is Failed.
C17_Witness ==
    \E h \in Handlers :
        /\ Instrumenting(h) /\ req[h].pc = "done"
        /\ Has(req[h].log, StNoPush) /\ Has(req[h].log, "apply")
        /\ get_deployment_by_name(db, req[h].name).status = StFailed

(***************************************************************************)
(* Reading the statuses two runs persisted.                                *)
(***************************************************************************)
\* The place of a status in the order of the stages.
StageRank ==
    [st \in StageStatuses \cup {StAlready, StNoPush} |->
        CASE st = StCloning -> 1
          [] st = StBuilding -> 2
          [] st = StAnalyzing -> 3
          [] st \in {StPushing, StAlready, StNoPush} -> 4
          [] st = StDeploying -> 5
          [] st = StDashboard -> 6
          [] OTHER -> 7]

IsRankedStatus(e) == e \in DOMAIN StageRank

\* The statuses a run has persisted so far.
Persisted(h) == SelectSeq(req[h].log, IsRankedStatus)

\* An instrument request for a name that has a record is admitted: it goes
\* on to write "Cloning repository...".
Admitted(h) ==
    ( /\ req[h].op = "idle" /\ req'[h].op = "instrument"
      /\ get_deployment_by_name(db, req'[h].name) # NoRow ) =>
    req'[h].pc = "status cloning"

(***************************************************************************)
(* C18.  Unprotected concurrent runs: an instrument request for a name is  *)
(* admitted whatever another run for that name is doing, so that (the      *)
(* witness) a state is reached in which the status one run persisted has   *)
(* been overwritten by a status of an earlier stage persisted by the       *)
(* other.                                                                  *)
(***************************************************************************)
C18_NothingExcludes == [][\A h \in Handlers : Admitted(h)]_vars

\* Two runs for one name: run a persisted "Generating Grafana dashboard..."
\* and waits for the provisioner; the record now holds the last status of
\* run b, which is of an earlier stage.
C18_Witness ==
    \E a \in Handlers, b \in Handlers :
        /\ a # b /\ Instrumenting(a) /\ Instrumenting(b)
        /\ req[a].name = req[b].name
        /\ Persisted(a) # <<>> /\ Persisted(b) # <<>>
        /\ Last(Persisted(a)) = StDashboard /\ req[a].pc = "dashboard"
        /\ get_deployment_by_name(db, req[b].name).status = Last(Persisted(b))
        /\ StageRank[Last(Persisted(b))] < StageRank[Last(Persisted(a))]

(***************************************************************************)
(* C19.  Artifact isolation between deployments: the teardown of one       *)
(* deployment removes no artifact that the run of a deployment of another  *)
(* name wrote.                                                             *)
(***************************************************************************)
C19_TeardownIsolated ==
    [][\A h \in Handlers :
          req[h].op = "undeploy" =>
              \A a \in artifacts \ artifacts' : a.by = req[h].name]_vars

(***************************************************************************)
(* C20.  Container selection: in every call that returns, each Deployment  *)
(* document with a container has exactly one container patched (image and  *)
(* pull policy): the first one whose name equals the app label the         *)
(* document came with, or the first of the list when none has that name;   *)
(* all other containers, and the other fields of the patched one, are as   *)
(* they were.                                                              *)
(***************************************************************************)
\* The position the selection rule names in a document that came in.
SelectedContainer(doc) ==
    LET named == {i \in DOMAIN doc.containers : doc.containers[i].name = doc.app}
    IN  IF named = {} THEN 1 ELSE CHOOSE i \in named : \A j \in named : i <= j

HasContainers(doc) ==
    doc.type = "map" /\ doc.kind = "Deployment" /\ doc.containers # <<>>

IsOtherKind(doc) == doc.type # "map" \/ doc.kind \notin {"Deployment", "Service"}

C21_KindIsolation ==
    \A k \in DOMAIN calls :
        (\A i \in DOMAIN calls[k].input : IsOtherKind(calls[k].input[i].node)) =>
            /\ ~calls[k].raised
            /\ safe_load_all(calls[k].yaml) = safe_load_all(calls[k].input)
            /\ ~calls[k].any_changes_made
            /\ ~calls[k].instrumentation_changes_made

(***************************************************************************)
(* C22.  Frame of the pipeline on the record: no step changes an attribute *)
(* of an existing record other than the status and the panel links, and    *)
(* the manifests an instrument run leaves in the checkout are those the    *)
(* transform gives for the language stored in the record.                  *)
(***************************************************************************)
SameIdentity(r1, r2) ==
    /\ r1.id = r2.id /\ r1.deployment_name = r2.deployment_name
    /\ r1.repo_url = r2.repo_url /\ r1.encrypted_pat_token = r2.encrypted_pat_token
    /\ r1.push_enabled = r2.push_enabled /\ r1.language = r2.language

RecordFramed ==
    \A r2 \in db' : \A r1 \in db :
        r1.deployment_name = r2.deployment_name => SameIdentity(r1, r2)

TransformedForStoredLanguage(h) ==
    (Instrumenting(h) /\ req[h].pc = "analyze" /\ req'[h].pc = "gate") =>
        LET name == req[h].name
            row  == get_deployment_by_name(db, name)
        IN  /\ row # NoRow
            /\ checkout'[name].files =
                   AnalyzeLoop(checkout[name].files, FoundManifestPaths(checkout[name]), 1,
                               name, row.language, FALSE).files

C22_RecordFrame ==
    [][RecordFramed /\ \A h \in Handlers : TransformedForStoredLanguage(h)]_vars

\* A run has transformed the manifests of a python repository and written
\* its status over the one of creation; the record has its language.
C22_Witness ==
    \E h \in Handlers :
        /\ Instrumenting(h) /\ req[h].pc = "gate" /\ Has(req[h].log, "transform")
        /\ \E r \in db :
              /\ r.deployment_name = req[h].name /\ r.language = "python"
              /\ r.status = StAnalyzing
        /\ checkout[req[h].name].files # remote[get_deployment_by_name(db, req[h].name).repo_url].files

(***************************************************************************)
(* C23.  Creation pre-validation.  A step that rejects a create request    *)
(* leaves the table as it was; a step that accepts one adds one record,    *)
(* with status Created, for a request whose trial clone succeeded, whose   *)
(* token, if any, verified, and whose push probe, if a push was asked for  *)
(* with a token, passed.                                                   *)
(***************************************************************************)
\* The step ends a create request of h with a rejection.
RejectsCreate(h) ==
    /\ req[h].pc # "done"
    /\ req'[h].op = "create" /\ req'[h].pc = "done" /\ req'[h].response # 201

\* The step ends a create request of h with a record.
AcceptsCreate(h) ==
    /\ req[h].pc # "done"
    /\ req'[h].op = "create" /\ req'[h].pc = "done" /\ req'[h].response = 201

\* The record the accepted request of h leaves.
CreatedRecord(h) == get_deployment_by_name(db', req'[h].name)

CreateFrame(h) ==
    /\ RejectsCreate(h) => db' = db
    /\ (req'[h].op = "create" /\ db' # db) => AcceptsCreate(h)
    /\ AcceptsCreate(h) =>
          /\ get_deployment_by_name(db, req'[h].name) = NoRow
          /\ db' = db \cup {CreatedRecord(h)}
          /\ CreatedRecord(h).status = StCreated
          /\ Has(req'[h].log, "trial clone ok")
          /\ (CreatedRecord(h).encrypted_pat_token # None) =
                (req'[h].input.pat_token # None)

\* The claim as stated: every record holding a token passed both checks.
C23_EveryTokenProbed ==
    [][\A h \in Handlers :
          /\ CreateFrame(h)
          /\ (AcceptsCreate(h) /\ CreatedRecord(h).encrypted_pat_token # None) =>
                /\ Has(req'[h].log, "verify_pat ok")
                /\ Has(req'[h].log, "push probe ok")]_vars

\* The probe is made for the records that ask for a push.
C23_PreValidation ==
    [][\A h \in Handlers :
          /\ CreateFrame(h)
          /\ (AcceptsCreate(h) /\ CreatedRecord(h).encrypted_pat_token # None) =>
                /\ Has(req'[h].log, "verify_pat ok")
                /\ CreatedRecord(h).push_enabled => Has(req'[h].log, "push probe ok")
                /\ ~CreatedRecord(h).push_enabled =>
                      \A e \in {"push probe ok", "push probe failed"} : ~Has(req'[h].log, e)]_vars

\* A record was created with a token and without a push: the token
\* verified and no probe was made.
C23_Witness ==
    \E h \in Handlers :
        /\ req[h].op = "create" /\ req[h].pc = "done" /\ req[h].response = 201
        /\ req[h].input.pat_token # None /\ ~req[h].input.push_to_git
        /\ Has(req[h].log, "verify_pat ok") /\ ~Has(req[h].log, "push probe ok")
        /\ \E r \in db : /\ r.deployment_name = req[h].name
                          /\ r.encrypted_pat_token # None /\ ~r.push_enabled
                          /\ r.status = StCreated

(***************************************************************************)
(* C24.  Re-run after push: a run whose clone holds a commit that an       *)
(* earlier run for the same deployment pushed finds no instrumentation     *)
(* change, persists "Manifests already instrumented." and neither commits  *)
(* nor pushes.                                                             *)
(***************************************************************************)
\* The run of h has cloned a repository that a run for its name pushed to.
ClonedAfterPush(h) ==
    /\ Instrumenting(h) /\ Has(req[h].log, "clone")
    /\ checkout[req[h].name].exists
    /\ req[h].name \in checkout[req[h].name].commits

C24_RerunAfterPush ==
    \A h \in Handlers :
        (ClonedAfterPush(h) /\ PastGate(h)) =>
            /\ ~req[h].instrumentation_changes_needed
            /\ Has(req[h].log, StAlready)
            /\ ~Has(req[h].log, StPushing)
            /\ ~Has(req[h].log, "git add")
            /\ ~Has(req[h].log, "commit") /\ ~Has(req[h].log, "push")

\* A second run has passed the gate on a clone of what the first pushed.
C24_Witness ==
    \E h \in Handlers :
        /\ ClonedAfterPush(h) /\ PastGate(h)
        /\ Has(req[h].log, StAlready)
        /\ FoundManifestPaths(checkout[req[h].name]) # <<>>

(***************************************************************************)
(* C25.  No resurrection of a deleted record: a step of an instrument run  *)
(* or of a teardown for a name that has no record leaves the table as it   *)
(* is, and a record for a name that had none appears only in the accepting *)
(* step of a create request for that name.                                 *)
(***************************************************************************)
\* Handler h takes the step.
Steps(h) == req'[h] # req[h]

NoOpWithoutRecord(h) ==
    ( /\ Steps(h) /\ req[h].op \in {"instrument", "undeploy"}
      /\ get_deployment_by_name(db, req[h].name) = NoRow ) =>
    db' = db

OnlyCreateAdds ==
    \A r \in db' :
        get_deployment_by_name(db, r.deployment_name) = NoRow =>
            \E h \in Handlers :
                /\ req[h].op = "create" /\ req[h].pc = "insert"
                /\ req[h].name = r.deployment_name
                /\ req'[h].response = 201

C25_NoResurrection ==
    [][OnlyCreateAdds /\ \A h \in Handlers : NoOpWithoutRecord(h)]_vars

\* A run persisted "Generating Grafana dashboard...", a teardown deleted the
\* record while the run waited, and the run has ended with 200 after writes
\* that found no row; the table holds no record of the name.
C25_Witness ==
    \E h \in Handlers :
        /\ Instrumenting(h) /\ req[h].pc = "done" /\ req[h].response = 200
        /\ Has(req[h].log, StDashboard)
        /\ Last(req[h].log) = "no row"
        /\ get_deployment_by_name(db, req[h].name) = NoRow

====
